---- MODULE Spec2Model ----
(***************************************************************************)
(* Weather suitability scoring of SureWeather: EventScoringService         *)
(* (backend/app/scoring.py) over the activity catalog of backend/app/db.py *)
(* and WeatherService._calculate_comfort_index (backend/app/services.py).  *)
(*                                                                         *)
(* Units.  Temperatures, wind speeds, visibilities, UV indexes and         *)
(* humidities are whole numbers.  Precipitation is kept in half            *)
(* millimetres (5 is 2.5 mm), so that readings between two whole           *)
(* millimetres exist; a threshold of T mm is 2*T half millimetres and the  *)
(* penalty of 8 per mm is 4 per half millimetre.  Scores are then whole    *)
(* numbers.  The comfort index is kept in sixths (600 is 100.0), which     *)
(* makes the weight 1.5 and the division by 3 exact.                       *)
(***************************************************************************)
EXTENDS Integers, Sequences, FiniteSets, TLC

VARIABLES events, weather_data, response, earlier, calls, database, startup

vars == <<events, weather_data, response, earlier, calls, database, startup>>

\* ------------------------------------------------------------------ bounds

\* A reading differs from the default reading in at most this many fields.
MaxChanged == 2

\* The largest catalog is the default catalog followed by this many more rows.
MaxExtra == 7

\* The largest months_ahead a caller of calculate_monthly_probabilities asks for.
MaxMonthsAhead == 13

\* ------------------------------------------------------------- arithmetic

Abs(x) == IF x < 0 THEN -x ELSE x

Min(a, b) == IF a < b THEN a ELSE b

Max(a, b) == IF a > b THEN a ELSE b

EmptyRequirements == [k \in {} |-> 0]

\* ---------------------------------------------------------------- catalog

\* json.loads of a requirements column holding a JSON object: num holds the
\* keys whose values are numbers, text the keys whose values are not.
Requirements(num, text) == [kind |-> "object", num |-> num, text |-> text]

\* json.loads of a requirements column holding JSON null.
NullRequirements == [kind |-> "null", num |-> EmptyRequirements, text |-> {}]

Event(id, name, category, requirements, min_comfort_score) ==
    [id |-> id, name |-> name, category |-> category,
     weather_requirements |-> requirements,
     min_comfort_score |-> min_comfort_score]

\* The rows init_db inserts, in insertion order.
sample_events ==
    << Event("concert", "Outdoor Concert", "sunny_friendly",
             Requirements(("max_wind" :> 15) @@ ("min_temp" :> 15)
                          @@ ("max_precipitation" :> 2), {}), 70),
       Event("museum", "Museum Tour", "rain_compatible",
             Requirements(("max_wind" :> 30) @@ ("min_temp" :> 5)
                          @@ ("max_precipitation" :> 50), {}), 30),
       Event("kite_festival", "Kite Festival", "wind_based",
             Requirements(("min_wind" :> 10) @@ ("max_wind" :> 25)
                          @@ ("min_temp" :> 10) @@ ("max_precipitation" :> 5), {}), 60),
       Event("skiing", "Skiing Adventure", "cold_weather",
             Requirements(("max_temp" :> 5) @@ ("min_precipitation" :> 5)
                          @@ ("max_wind" :> 20), {}), 50),
       Event("hiking", "Mountain Hiking", "sunny_friendly",
             Requirements(("max_wind" :> 20) @@ ("min_temp" :> 10)
                          @@ ("max_precipitation" :> 5) @@ ("min_visibility" :> 5), {}), 80) >>

\* Rows of the events table other than the samples.  The table's columns are
\* TEXT/REAL NOT NULL, so every row has all six fields; weather_requirements
\* is whatever JSON the column holds.
ExtraIds == << "e1", "e2", "e3", "e4", "e5", "e6", "e7", "e8", "e9" >>

ExtraEvent(i) ==
    Event(ExtraIds[i], "Extra", <<"uncomfortable", "rain_compatible", "sunny_friendly">>[(i % 3) + 1],
          Requirements(("max_temp" :> (16 + 2 * i)), {}),
          IF i = 1 THEN 100 ELSE 0)

ExtraEvents(n) == [i \in 1..n |-> ExtraEvent(i)]

BrokenNull == Event("broken_null", "Broken Null", "sunny_friendly", NullRequirements, 0)

BrokenText ==
    Event("broken_text", "Broken Text", "rain_compatible",
          Requirements(("max_wind" :> 30), {"max_temp"}), 0)

\* A row with a warm-weather activity that tolerates little rain.
BeachDay ==
    Event("beach_day", "Beach Day", "sunny_friendly",
          Requirements(("max_temp" :> 25) @@ ("max_precipitation" :> 2), {}), 0)

\* What get_events can return: the contents of the events table.
Catalogs ==
    { << >>,
      <<BeachDay>>,
      sample_events,
      sample_events \o ExtraEvents(Min(MaxExtra, Len(ExtraIds))),
      <<BrokenNull>> \o SubSeq(sample_events, 1, 2) \o <<BrokenText>>
          \o SubSeq(sample_events, 3, 5),
      sample_events \o <<BrokenText, BrokenNull>> }

\* --------------------------------------------------------------- readings

WeatherCondition == {"sunny", "cloudy", "rainy", "snowy", "windy", "foggy", "stormy"}

Temperatures == {-5, 12, 20, 35}

Humidities == {50, 85}

WindSpeeds == {3, 10, 22}

\* half millimetres: 0, 2.5, 8, 50.5 and 51 mm
Precipitations == {0, 5, 16, 101, 102}

Visibilities == {3, 10}

UvIndexes == {5, 9}

\* "dict": the keyed reading the routes build on the long-term path;
\* "model": a WeatherData object (forecast.current, or a generated reading).
ReadingKinds == {"dict", "model"}

\* absent: the keys a keyed reading does not carry (a WeatherData object has
\* all its attributes).
DefaultReading ==
    [kind |-> "dict", temperature |-> 20, humidity |-> 50, wind_speed |-> 10,
     precipitation |-> 0, visibility |-> 10, uv_index |-> 5, condition |-> "sunny",
     absent |-> {}]

ReadingFields ==
    {"temperature", "humidity", "wind_speed", "precipitation", "visibility",
     "uv_index", "condition"}

Changed(r) == Cardinality({f \in ReadingFields : r[f] # DefaultReading[f]})

AllReadings ==
    [kind : ReadingKinds, temperature : Temperatures, humidity : Humidities,
     wind_speed : WindSpeeds, precipitation : Precipitations,
     visibility : Visibilities, uv_index : UvIndexes, condition : WeatherCondition,
     absent : {{}}]

\* A hot day with 10 mm of rain, a light wind and humidity 60.
HotWetDay ==
    [DefaultReading EXCEPT !.temperature = 35, !.precipitation = 20,
                           !.wind_speed = 5, !.humidity = 60]

\* The readings of the scoring calls.  A WeatherData object fails at the
\* first keyed lookup whatever it holds, so those one field away from the
\* default are enough here; SpecComfort ranges over all of them.
Readings ==
    { r \in AllReadings :
        Changed(r) <= (IF r.kind = "dict" THEN MaxChanged ELSE 1) }
    \cup {HotWetDay}

\* ------------------------------------------------- _calculate_score (55-160)

\* weather_data.get(key, default) on a keyed reading: the default when the
\* key is absent (mutant: the lookup that ignores the default and reads
\* whatever the slot holds).
Get_slot(wd, key, default) == wd[key]

Get(wd, key, default) == IF key \in wd.absent THEN default ELSE wd[key]

\* reasons = [] : a fresh list per invocation (mutant: a list that outlives
\* the call and still holds the previous call's reasons).
InitialReasons_shared ==
    IF response.op = "calculate_event_score" /\ response.raised = "none"
    THEN response.result.reasons ELSE << >>

InitialReasons == << >>

\* score -= penalty; reasons.append(...); recommendations.append(...)
\* (mutant: a penalty that gives its reason and no recommendation.)
Penalise_without_recommendation(st, penalty, reason, recommendation) ==
    [score |-> st.score - penalty,
     reasons |-> Append(st.reasons, reason),
     recommendations |-> st.recommendations]

Penalise(st, penalty, reason, recommendation) ==
    [score |-> st.score - penalty,
     reasons |-> Append(st.reasons, reason),
     recommendations |-> Append(st.recommendations, recommendation)]

Has(requirements, key) == key \in DOMAIN requirements.num

MinTempRule(st, requirements, temp) ==
    IF Has(requirements, "min_temp") /\ temp < requirements.num["min_temp"]
    THEN Penalise(st, (requirements.num["min_temp"] - temp) * 5,
                  <<"Temperature too low", temp, requirements.num["min_temp"]>>,
                  "Consider indoor alternatives or wait for warmer weather")
    ELSE st

MaxTempRule(st, requirements, temp) ==
    IF Has(requirements, "max_temp") /\ temp > requirements.num["max_temp"]
    THEN Penalise(st, (temp - requirements.num["max_temp"]) * 3,
                  <<"Temperature too high", temp, requirements.num["max_temp"]>>,
                  "Consider early morning or evening timing")
    ELSE st

MinWindRule(st, requirements, wind_speed) ==
    IF Has(requirements, "min_wind") /\ wind_speed < requirements.num["min_wind"]
    THEN Penalise(st, (requirements.num["min_wind"] - wind_speed) * 2,
                  <<"Wind too light", wind_speed, requirements.num["min_wind"]>>,
                  "Wait for windier conditions or consider alternative activities")
    ELSE st

MaxWindRule(st, requirements, wind_speed) ==
    IF Has(requirements, "max_wind") /\ wind_speed > requirements.num["max_wind"]
    THEN Penalise(st, (wind_speed - requirements.num["max_wind"]) * 4,
                  <<"Wind too strong", wind_speed, requirements.num["max_wind"]>>,
                  "Consider indoor alternatives or wait for calmer conditions")
    ELSE st

\* (precipitation - max_precipitation) * 8, precipitation in half millimetres
\* (mutant: the penalty is added instead of subtracted).
PrecipitationPenalty_sign(precipitation, max_precipitation) ==
    (2 * max_precipitation - precipitation) * 4

PrecipitationPenalty(precipitation, max_precipitation) ==
    (precipitation - 2 * max_precipitation) * 4

\* (mutant: a rule that also reads min_precipitation, a key no rule of the
\* code reads.)
MaxPrecipitationRule_with_minimum(st, requirements, precipitation) ==
    IF Has(requirements, "min_precipitation")
       /\ precipitation < 2 * requirements.num["min_precipitation"]
    THEN Penalise(st,
                  (2 * requirements.num["min_precipitation"] - precipitation) * 4,
                  <<"Too little precipitation", precipitation,
                    requirements.num["min_precipitation"]>>,
                  "Wait for more snow")
    ELSE IF Has(requirements, "max_precipitation")
            /\ precipitation > 2 * requirements.num["max_precipitation"]
    THEN Penalise(st,
                  PrecipitationPenalty(precipitation, requirements.num["max_precipitation"]),
                  <<"Too much precipitation", precipitation,
                    requirements.num["max_precipitation"]>>,
                  "Consider indoor alternatives or wait for drier conditions")
    ELSE st

MaxPrecipitationRule(st, requirements, precipitation) ==
    IF Has(requirements, "max_precipitation")
       /\ precipitation > 2 * requirements.num["max_precipitation"]
    THEN Penalise(st,
                  PrecipitationPenalty(precipitation, requirements.num["max_precipitation"]),
                  <<"Too much precipitation", precipitation,
                    requirements.num["max_precipitation"]>>,
                  "Consider indoor alternatives or wait for drier conditions")
    ELSE st

MinVisibilityRule(st, requirements, wd) ==
    IF Has(requirements, "min_visibility")
    THEN LET visibility == Get(wd, "visibility", 10)
         IN IF visibility < requirements.num["min_visibility"]
            THEN Penalise(st, (requirements.num["min_visibility"] - visibility) * 3,
                          <<"Poor visibility", visibility,
                            requirements.num["min_visibility"]>>,
                          "Wait for clearer conditions")
            ELSE st
    ELSE st

\* Category-based adjustments: one if/elif chain (mutant: the last branch
\* lost its category test and became an if of its own).
CategoryAdjustment_loose(st, category, condition, wind_speed, temp) ==
    LET a == IF category = "sunny_friendly" /\ condition \in {"rainy", "snowy", "stormy"}
             THEN Penalise(st, 30, <<"Weather not suitable for outdoor sunny activities">>,
                           "Consider indoor alternatives or wait for better weather")
             ELSE IF category = "rain_compatible" /\ condition \in {"sunny", "cloudy"}
             THEN [st EXCEPT !.score = @ + 10,
                             !.reasons = Append(@, <<"Perfect weather for this indoor activity">>)]
             ELSE IF category = "wind_based" /\ wind_speed < 5
             THEN Penalise(st, 20, <<"Insufficient wind for wind-based activities">>,
                           "Wait for windier conditions")
             ELSE st
    IN IF temp > 10
       THEN Penalise(a, 25, <<"Too warm for cold-weather activities">>,
                     "Consider winter alternatives or wait for colder weather")
       ELSE a

CategoryAdjustment(st, category, condition, wind_speed, temp) ==
    IF category = "sunny_friendly" /\ condition \in {"rainy", "snowy", "stormy"}
    THEN Penalise(st, 30, <<"Weather not suitable for outdoor sunny activities">>,
                  "Consider indoor alternatives or wait for better weather")
    ELSE IF category = "rain_compatible" /\ condition \in {"sunny", "cloudy"}
    THEN [st EXCEPT !.score = @ + 10,
                    !.reasons = Append(@, <<"Perfect weather for this indoor activity">>)]
    ELSE IF category = "wind_based" /\ wind_speed < 5
    THEN Penalise(st, 20, <<"Insufficient wind for wind-based activities">>,
                  "Wait for windier conditions")
    ELSE IF category = "cold_weather" /\ temp > 10
    THEN Penalise(st, 25, <<"Too warm for cold-weather activities">>,
                  "Consider winter alternatives or wait for colder weather")
    ELSE st

\* (mutant: the wind penalty is left out.)
ComfortAdjustments_humidity_only(st, humidity, wind_speed) ==
    IF humidity > 80
    THEN Penalise(st, 10, <<"High humidity may cause discomfort">>,
                  "Stay hydrated and take breaks")
    ELSE st

ComfortAdjustments(st, humidity, wind_speed) ==
    LET a == IF humidity > 80
             THEN Penalise(st, 10, <<"High humidity may cause discomfort">>,
                           "Stay hydrated and take breaks")
             ELSE st
    IN IF wind_speed > 20
       THEN Penalise(a, 15, <<"Strong winds may cause discomfort">>,
                     "Dress appropriately and secure loose items")
       ELSE a

\* score = max(0, min(100, score)) (mutant: the line is missing).
ClampScore_missing(score) == score

ClampScore(score) == Max(0, Min(100, score))

SummaryReason(score) ==
    IF score >= 80 THEN <<"Excellent weather conditions for this event">>
    ELSE IF score >= 60 THEN <<"Good weather conditions for this event">>
    ELSE IF score >= 40 THEN <<"Moderate weather conditions - proceed with caution">>
    ELSE <<"Poor weather conditions for this event">>

RecognizedKeys ==
    {"min_temp", "max_temp", "min_wind", "max_wind", "max_precipitation", "min_visibility"}

Raised(error) ==
    [raised |-> error, score |-> 0, reasons |-> << >>, recommendations |-> << >>]

\* The exception _calculate_score ends with, "none" when it returns.
\*   - weather_data.get on a WeatherData object: AttributeError (line 62);
\*   - "min_temp" in None: TypeError (line 69);
\*   - a number compared with a non-number threshold: TypeError.
EvaluationError(event, wd) ==
    IF wd.kind # "dict" THEN "AttributeError"
    ELSE IF event.weather_requirements.kind # "object" THEN "TypeError"
    ELSE IF event.weather_requirements.text \cap RecognizedKeys # {} THEN "TypeError"
    ELSE "none"

\* score = 100.0; reasons = []; recommendations = []
FreshLocals == [score |-> 100, reasons |-> InitialReasons, recommendations |-> << >>]

\* The six requirement rules, in the order of the code (68-113).
RequirementRules(s0, event, wd) ==
    LET requirements  == event.weather_requirements
        temp          == Get(wd, "temperature", 20)
        wind_speed    == Get(wd, "wind_speed", 10)
        precipitation == Get(wd, "precipitation", 0)
        s1 == MinTempRule(s0, requirements, temp)
        s2 == MaxTempRule(s1, requirements, temp)
        s3 == MinWindRule(s2, requirements, wind_speed)
        s4 == MaxWindRule(s3, requirements, wind_speed)
        s5 == MaxPrecipitationRule(s4, requirements, precipitation)
    IN MinVisibilityRule(s5, requirements, wd)

\* The category overlay and the comfort adjustments (115-145).
Adjustments(s6, event, wd) ==
    LET temp          == Get(wd, "temperature", 20)
        humidity      == Get(wd, "humidity", 50)
        wind_speed    == Get(wd, "wind_speed", 10)
        condition     == Get(wd, "condition", "sunny")
        s7 == CategoryAdjustment(s6, event.category, condition, wind_speed, temp)
    IN ComfortAdjustments(s7, humidity, wind_speed)

\* The clamp, the summary reason and the returned triple (148-160).
\* (mutant: the summary reason is not appended.)
Finish_without_summary(s8) ==
    [raised |-> "none", score |-> ClampScore(s8.score),
     reasons |-> s8.reasons, recommendations |-> s8.recommendations]

Finish(s8) ==
    LET score == ClampScore(s8.score)
    IN [raised |-> "none", score |-> score,
        reasons |-> Append(s8.reasons, SummaryReason(score)),
        recommendations |-> s8.recommendations]

_calculate_score(event, wd) ==
    IF EvaluationError(event, wd) # "none" THEN Raised(EvaluationError(event, wd))
    ELSE Finish(Adjustments(RequirementRules(FreshLocals, event, wd), event, wd))

\* ------------------------------------------- EventScoringService (5-53)

EventSuitabilityScore(event_id, event_name, r) ==
    [event_id |-> event_id, event_name |-> event_name, score |-> r.score,
     reasons |-> r.reasons, recommendations |-> r.recommendations]

\* What a call left behind: the exception it raised ("none" when it
\* returned), result for calculate_event_score, results for
\* get_event_recommendations, comfort for _calculate_comfort_index.
Response(op, event_id, categories, raised, result, results, comfort) ==
    [op |-> op, event_id |-> event_id, categories |-> categories, raised |-> raised,
     result |-> result, results |-> results, comfort |-> comfort]

\* categories=None, and a list of category names.
NoCategories == [is_none |-> TRUE, names |-> {}]

Categories(names) == [is_none |-> FALSE, names |-> names]

NoResult == [event_id |-> "", event_name |-> "", score |-> 0,
             reasons |-> << >>, recommendations |-> << >>]

NoResponse == Response("none", "", NoCategories, "none", NoResult, << >>, 0)

\* next((e for e in self.events if e["id"] == event_id), None): the index of
\* the first match, 0 for None.
FindEvent(catalog, event_id) ==
    LET hits == {i \in 1..Len(catalog) : catalog[i].id = event_id}
    IN IF hits = {} THEN 0 ELSE CHOOSE i \in hits : \A j \in hits : i <= j

calculate_event_score(self, event_id, wd) ==
    LET i == FindEvent(self.events, event_id)
    IN IF i = 0
       THEN Response("calculate_event_score", event_id, NoCategories, "ValueError",
                     NoResult, << >>, 0)
       ELSE LET r == _calculate_score(self.events[i], wd)
            IN IF r.raised # "none"
               THEN Response("calculate_event_score", event_id, NoCategories, r.raised,
                             NoResult, << >>, 0)
               ELSE Response("calculate_event_score", event_id, NoCategories, "none",
                             EventSuitabilityScore(event_id, self.events[i].name, r), << >>, 0)

\* if categories: [e for e in self.events if e["category"] in categories]
FilterEvents(catalog, categories) ==
    IF ~categories.is_none /\ categories.names # {}
    THEN SelectSeq(catalog, LAMBDA e : e.category \in categories.names)
    ELSE catalog

\* self.events once the filter has run: filtered_events is a local name and
\* self.events is not assigned (mutant: the filtered list is stored back).
events_after_filter_stored(self, filtered_events) == filtered_events

events_after_filter(self, filtered_events) == self.events

\* except Exception as e: print(...); continue  (mutant: no handler, the
\* exception leaves the loop).
OnEvaluationError_propagate(acc, error) == [acc EXCEPT !.raised = error]

OnEvaluationError(acc, error) == acc

\* if score >= event["min_comfort_score"] (mutant: a strict comparison).
Suitable_strict(score, event) == score > event.min_comfort_score

Suitable(score, event) == score >= event.min_comfort_score

\* The for loop over filtered_events, from entry i on; acc holds the
\* recommendations list and the exception that left the loop, if any.
RECURSIVE ScoreEvents(_, _, _, _)
ScoreEvents(filtered_events, i, wd, acc) ==
    IF i > Len(filtered_events) \/ acc.raised # "none" THEN acc
    ELSE LET event == filtered_events[i]
             r == _calculate_score(event, wd)
             next == IF r.raised # "none" THEN OnEvaluationError(acc, r.raised)
                     ELSE IF Suitable(r.score, event)
                     THEN [acc EXCEPT !.recommendations =
                              Append(@, EventSuitabilityScore(event.id, event.name, r))]
                     ELSE acc
         IN ScoreEvents(filtered_events, i + 1, wd, next)

\* list.sort(key=lambda x: x.score, reverse=True): stable, so x goes behind
\* every element whose score is at least its own.
RECURSIVE InsertByScore(_, _)
InsertByScore(sorted, x) ==
    IF sorted = << >> THEN <<x>>
    ELSE IF Head(sorted).score >= x.score
         THEN <<Head(sorted)>> \o InsertByScore(Tail(sorted), x)
         ELSE <<x>> \o sorted

RECURSIVE SortFrom(_, _, _)
SortFrom(list, i, sorted) ==
    IF i > Len(list) THEN sorted
    ELSE SortFrom(list, i + 1, InsertByScore(sorted, list[i]))

\* (mutant: the sort is missing).
SortByScore_missing(list) == list

SortByScore(list) == SortFrom(list, 1, << >>)

\* recommendations[:10] (mutant: the last ten are kept.)
TopTen_last(list) == SubSeq(list, Max(1, Len(list) - 9), Len(list))

TopTen(list) == SubSeq(list, 1, Min(10, Len(list)))

get_event_recommendations(self, wd, forecast_type, categories) ==
    LET filtered_events == FilterEvents(self.events, categories)
        acc == ScoreEvents(filtered_events, 1, wd,
                           [raised |-> "none", recommendations |-> << >>])
    IN IF acc.raised # "none"
       THEN Response("get_event_recommendations", "", categories, acc.raised,
                     NoResult, << >>, 0)
       ELSE Response("get_event_recommendations", "", categories, "none",
                     NoResult, TopTen(SortByScore(acc.recommendations)), 0)

\* ------------------------------------------------------ calls in flight

\* The callers whose calls may be in flight at once.
Callers == {1, 2}

NoLocals == [score |-> 0, reasons |-> << >>, recommendations |-> << >>]

\* The frame of a caller: where it stands (pc), the arguments of its call,
\* the locals of get_event_recommendations (filtered_events, the place i
\* of the loop, acc for the recommendations list), the locals of
\* _calculate_score, what the call returned, and whether another call was
\* in flight at any time during this one.
IdleCall ==
    [pc |-> "idle", op |-> "none", event_id |-> "", categories |-> NoCategories,
     wd |-> DefaultReading, filtered_events |-> << >>, i |-> 0,
     acc |-> [raised |-> "none", recommendations |-> << >>],
     locals |-> NoLocals, result |-> NoResponse, concurrent |-> FALSE]

NoCalls == [t \in Callers |-> IdleCall]

\* ------------------- WeatherService._calculate_comfort_index (235-256)

\* max(0, min(100, comfort)), in sixths (mutant: the lower bound is missing).
ClampComfort_no_floor(comfort) == Min(600, comfort)

ClampComfort(comfort) == Max(0, Min(600, comfort))

\* In sixths: abs(t - 22.5) * 4 is Abs(2t - 45) * 12 sixths, abs(h - 50) * 1.5
\* is Abs(h - 50) * 9 sixths, abs(w - 8) * 5 is Abs(w - 8) * 30 sixths;
\* precipitation * 10 is 30 sixths per half millimetre.
_calculate_comfort_index(weather) ==
    LET temp_score     == Max(0, 600 - Abs(2 * weather.temperature - 45) * 12)
        humidity_score == Max(0, 600 - Abs(weather.humidity - 50) * 9)
        wind_score     == Max(0, 600 - Abs(weather.wind_speed - 8) * 30)
        precip_penalty == Min(300, weather.precipitation * 30)
        uv_penalty     == Min(180, Max(0, weather.uv_index - 6) * 30)
        visibility_penalty == Min(120, Max(0, 10 - weather.visibility) * 12)
        comfort == ((temp_score + humidity_score + wind_score) \div 3)
                   - precip_penalty - uv_penalty - visibility_penalty
    IN ClampComfort(comfort)

\* ------------------------------------------------ the database (db.py)

\* nasa_weather.db: the tables it has and the rows of its events table in
\* rowid order.  sqlite3.connect creates the file when it does not exist, with
\* no table in it.
FreshDatabase == [tables |-> {}, rows |-> << >>]

Table(rows) == [tables |-> {"query_history", "events"}, rows |-> rows]

\* INSERT OR REPLACE of each new row in turn: a row with the same id is
\* deleted, and the new row gets the next rowid.
InsertOrReplace(rows, new) ==
    LET Stays(row) == \A i \in 1..Len(new) : row.id # new[i].id
    IN SelectSeq(rows, Stays) \o new

\* CREATE TABLE IF NOT EXISTS for both tables, then the sample rows.
init_db(db) ==
    [tables |-> db.tables \cup {"query_history", "events"},
     rows |-> InsertOrReplace(db.rows, sample_events)]

\* SELECT * FROM events: sqlite3.OperationalError when there is no such table.
get_events(db) ==
    IF "events" \in db.tables
    THEN [raised |-> "none", rows |-> db.rows]
    ELSE [raised |-> "OperationalError", rows |-> << >>]

\* ---------------------------------------------------------------- actions

ForecastTypes == {"short_term", "long_term"}

ForecastType(wd) == IF wd.kind = "model" THEN "short_term" ELSE "long_term"

CategoryFilters ==
    { NoCategories, Categories({}), Categories({"sunny_friendly"}),
      Categories({"rain_compatible", "cold_weather"}), Categories({"indoor"}) }

\* The ids a caller asks for: those of the catalog and one that is in no catalog.
EventIds == {events[i].id : i \in 1..Len(events)} \cup {"picnic"}

\* The service object: self.events is its only attribute.
Self == [events |-> events]

\* EventScoringService.__init__ has loaded the catalog; a request arrived
\* with its reading; no call has been made.
Init ==
    /\ events \in Catalogs
    /\ weather_data \in Readings
    /\ response = NoResponse
    /\ earlier = NoResponse
    /\ calls = NoCalls
    /\ database = init_db(Table(events))
    /\ startup = "serving"

CalculateEventScore ==
    \E event_id \in EventIds :
        /\ response' = calculate_event_score(Self, event_id, weather_data)
        /\ UNCHANGED <<events, weather_data, earlier, calls, database, startup>>

\* The route hands over forecast.current with "short_term" and the keyed
\* reading it builds with any other forecast type.
GetEventRecommendations ==
    \E categories \in CategoryFilters :
        /\ response' = get_event_recommendations(Self, weather_data,
                                                 ForecastType(weather_data), categories)
        /\ events' = events_after_filter(Self, FilterEvents(events, categories))
        /\ UNCHANGED <<weather_data, earlier, calls, database, startup>>

\* _calculate_comfort_index reads attributes: it is called on WeatherData objects.
CalculateComfortIndex ==
    /\ weather_data.kind = "model"
    /\ response' = Response("_calculate_comfort_index", "", NoCategories, "none",
                            NoResult, << >>, _calculate_comfort_index(weather_data))
    /\ UNCHANGED <<events, weather_data, earlier, calls, database, startup>>

Next == CalculateEventScore \/ GetEventRecommendations \/ CalculateComfortIndex

Spec == Init /\ [][Next]_vars

\* ------------------------------------------- repeated invocations

\* The readings of successive requests: a cold, a mild and a hot day, fair or
\* rainy, handed over keyed or as a WeatherData object.
RepeatReadings ==
    { [DefaultReading EXCEPT !.kind = k, !.temperature = t, !.condition = c] :
        k \in ReadingKinds, t \in {-5, 20, 35}, c \in {"sunny", "rainy"} }

InitRepeat ==
    /\ events = sample_events \o <<BrokenText, BrokenNull>>
    /\ weather_data = DefaultReading
    /\ response = NoResponse
    /\ earlier = NoResponse
    /\ calls = NoCalls
    /\ database = init_db(Table(events))
    /\ startup = "serving"

\* The next request arrives with another reading; it has no response yet.
NextRequest ==
    /\ weather_data' \in RepeatReadings \ {weather_data}
    /\ response' = NoResponse
    /\ UNCHANGED <<events, earlier, calls, database, startup>>

\* Keep a returned calculate_event_score result, with the reading it was
\* computed from, to compare later invocations with.
Remember ==
    /\ earlier.op = "none"
    /\ response.op = "calculate_event_score"
    /\ response.raised = "none"
    /\ earlier' = [response EXCEPT !.comfort = 0] @@ [reading |-> weather_data]
    /\ UNCHANGED <<events, weather_data, response, calls, database, startup>>

SpecRepeat == InitRepeat /\ [][Next \/ NextRequest \/ Remember]_vars

\* ------------------------------------------- the comfort index alone

InitComfort ==
    /\ events = sample_events
    /\ weather_data \in {r \in AllReadings : r.kind = "model"}
    /\ response = NoResponse
    /\ earlier = NoResponse
    /\ calls = NoCalls
    /\ database = init_db(Table(events))
    /\ startup = "serving"

SpecComfort == InitComfort /\ [][CalculateComfortIndex]_vars

\* ------------------------------------------- start-up (main.py, routes.py)

\* The process is launched: app.main is about to be imported, there is no
\* service object yet.  nasa_weather.db holds nothing (a fresh database), or
\* the tables with the rows an earlier init_db and later edits of the table
\* left.  The reading is that of the requests served once the application is
\* up.
InitStartup ==
    /\ database \in {FreshDatabase} \cup {Table(rows) : rows \in Catalogs}
    /\ startup = "launching"
    /\ events = << >>
    /\ weather_data \in { [DefaultReading EXCEPT !.kind = k, !.temperature = t] :
                              k \in ReadingKinds, t \in {-5, 20, 35} }
    /\ response = NoResponse
    /\ earlier = NoResponse
    /\ calls = NoCalls

\* main.py line 5 imports app.routes, whose line 14 constructs the
\* EventScoringService: __init__ stores get_events().  An exception raised
\* there ends the import of app.main, and with it the process.
ImportRoutes ==
    /\ startup = "launching"
    /\ LET loaded == get_events(database)
       IN IF loaded.raised # "none"
          THEN /\ startup' = "import_failed"
               /\ UNCHANGED events
          ELSE /\ startup' = "routes_imported"
               /\ events' = loaded.rows
    /\ UNCHANGED <<weather_data, response, earlier, calls, database>>

\* The startup event of the application, run by uvicorn once app.main is
\* imported and before any request is served.
startup_event ==
    /\ startup = "routes_imported"
    /\ database' = init_db(database)
    /\ startup' = "serving"
    /\ UNCHANGED <<events, weather_data, response, earlier, calls>>

ServeRequest ==
    /\ startup = "serving"
    /\ CalculateEventScore \/ GetEventRecommendations

\* The process ends and is launched again; the database file stays.
Relaunch ==
    /\ startup \in {"serving", "import_failed"}
    /\ startup' = "launching"
    /\ events' = << >>
    /\ response' = NoResponse
    /\ UNCHANGED <<weather_data, earlier, calls, database>>

SpecStartup ==
    InitStartup /\ [][ImportRoutes \/ startup_event \/ ServeRequest \/ Relaunch]_vars

\* ------------------------- ClothingRecommendationService (clothing.py 17-272)

ClothingItem ==
    {"jacket", "gloves", "scarf", "boots", "sunglasses", "sunscreen", "hat",
     "umbrella"}

\* icon=self.clothing_icons[item]: the icon is a function of the item.
ClothingRecommendation(item, priority, reason) ==
    [item |-> item, priority |-> priority, reason |-> reason,
     icon |-> <<"icon", item>>]

\* recommendations.extend([...]) (mutant: an entry is left out when the list
\* already names its item).
RECURSIVE Extend_merged(_, _)
Extend_merged(recommendations, items) ==
    IF items = << >> THEN recommendations
    ELSE Extend_merged(
             IF \E k \in 1..Len(recommendations) :
                    recommendations[k].item = Head(items).item
             THEN recommendations
             ELSE Append(recommendations, Head(items)),
             Tail(items))

Extend(recommendations, items) == recommendations \o items

\* One band of a rule fires: its entries and its tips are appended.
Advise(st, items, tips) ==
    [recommendations |-> Extend(st.recommendations, items),
     comfort_tips    |-> st.comfort_tips \o tips]

\* (mutant: the cold bands are tested one after the other, not as
\* alternatives, and the warm bands likewise.)
TemperatureAdvice_independent(st, temp) ==
    LET freezing == IF temp < 0
                    THEN Advise(st,
                           << ClothingRecommendation("jacket", 5,
                                  <<"Very cold weather - heavy winter jacket essential">>),
                              ClothingRecommendation("gloves", 5,
                                  <<"Protect hands from freezing temperatures">>),
                              ClothingRecommendation("scarf", 4,
                                  <<"Protect neck and face from cold">>),
                              ClothingRecommendation("boots", 4,
                                  <<"Warm, waterproof footwear essential">>) >>,
                           << "Layer up with thermal clothing",
                              "Keep extremities warm to prevent frostbite" >>)
                    ELSE st
        cold == IF temp < 10
                THEN Advise(freezing,
                       << ClothingRecommendation("jacket", 4,
                              <<"Cold weather - warm jacket recommended">>),
                          ClothingRecommendation("gloves", 3, <<"Protect hands from cold">>),
                          ClothingRecommendation("boots", 3,
                              <<"Warm, comfortable footwear">>) >>,
                       << "Wear layers for easy temperature adjustment" >>)
                ELSE freezing
        cool == IF temp < 20
                THEN Advise(cold,
                       << ClothingRecommendation("jacket", 2,
                              <<"Light jacket for cool weather">>) >>,
                       << "Dress in layers for comfort" >>)
                ELSE cold
        hot == IF temp > 30
               THEN Advise(cool,
                      << ClothingRecommendation("sunglasses", 4,
                             <<"Protect eyes from bright sun">>),
                         ClothingRecommendation("sunscreen", 5,
                             <<"Essential protection from UV rays">>),
                         ClothingRecommendation("hat", 4,
                             <<"Protect head from sun and heat">>) >>,
                      << "Wear light, breathable fabrics",
                         "Stay hydrated and take breaks in shade" >>)
               ELSE cool
    IN IF temp > 25
       THEN Advise(hot,
              << ClothingRecommendation("sunglasses", 3, <<"Protect eyes from sun">>),
                 ClothingRecommendation("sunscreen", 4,
                     <<"Protect skin from UV rays">>) >>,
              << "Wear light, comfortable clothing" >>)
       ELSE hot

\* clothing.py 31-134
TemperatureAdvice(st, temp) ==
    IF temp < 0
    THEN Advise(st,
           << ClothingRecommendation("jacket", 5,
                  <<"Very cold weather - heavy winter jacket essential">>),
              ClothingRecommendation("gloves", 5,
                  <<"Protect hands from freezing temperatures">>),
              ClothingRecommendation("scarf", 4,
                  <<"Protect neck and face from cold">>),
              ClothingRecommendation("boots", 4,
                  <<"Warm, waterproof footwear essential">>) >>,
           << "Layer up with thermal clothing",
              "Keep extremities warm to prevent frostbite" >>)
    ELSE IF temp < 10
    THEN Advise(st,
           << ClothingRecommendation("jacket", 4,
                  <<"Cold weather - warm jacket recommended">>),
              ClothingRecommendation("gloves", 3, <<"Protect hands from cold">>),
              ClothingRecommendation("boots", 3, <<"Warm, comfortable footwear">>) >>,
           << "Wear layers for easy temperature adjustment" >>)
    ELSE IF temp < 20
    THEN Advise(st,
           << ClothingRecommendation("jacket", 2,
                  <<"Light jacket for cool weather">>) >>,
           << "Dress in layers for comfort" >>)
    ELSE IF temp > 30
    THEN Advise(st,
           << ClothingRecommendation("sunglasses", 4,
                  <<"Protect eyes from bright sun">>),
              ClothingRecommendation("sunscreen", 5,
                  <<"Essential protection from UV rays">>),
              ClothingRecommendation("hat", 4,
                  <<"Protect head from sun and heat">>) >>,
           << "Wear light, breathable fabrics",
              "Stay hydrated and take breaks in shade" >>)
    ELSE IF temp > 25
    THEN Advise(st,
           << ClothingRecommendation("sunglasses", 3, <<"Protect eyes from sun">>),
              ClothingRecommendation("sunscreen", 4,
                  <<"Protect skin from UV rays">>) >>,
           << "Wear light, comfortable clothing" >>)
    ELSE st

\* clothing.py 137-176; precipitation in half millimetres.
PrecipitationAdvice(st, precipitation) ==
    IF precipitation > 2 * 5
    THEN Advise(st,
           << ClothingRecommendation("umbrella", 5,
                  <<"Heavy rain expected - umbrella essential">>),
              ClothingRecommendation("boots", 4,
                  <<"Waterproof footwear for wet conditions">>),
              ClothingRecommendation("jacket", 4,
                  <<"Waterproof jacket recommended">>) >>,
           << "Avoid cotton clothing - it stays wet longer",
              "Consider waterproof bags for electronics" >>)
    ELSE IF precipitation > 2 * 1
    THEN Advise(st,
           << ClothingRecommendation("umbrella", 3, <<"Light rain expected">>),
              ClothingRecommendation("jacket", 2, <<"Light rain protection">>) >>,
           << "Quick-drying fabrics recommended" >>)
    ELSE st

\* clothing.py 179-206
WindAdvice(st, wind_speed) ==
    IF wind_speed > 20
    THEN Advise(st,
           << ClothingRecommendation("jacket", 3,
                  <<"Windy conditions - windproof jacket recommended">>),
              ClothingRecommendation("hat", 3,
                  <<"Secure hat to protect from wind">>) >>,
           << "Secure loose items and hair", "Consider windproof layers" >>)
    ELSE IF wind_speed > 15
    THEN Advise(st,
           << ClothingRecommendation("jacket", 2,
                  <<"Moderate wind - light windbreaker">>) >>,
           << "Dress in layers for wind protection" >>)
    ELSE st

\* clothing.py 209-248; the first reason of either band quotes the index.
UvAdvice(st, uv_index) ==
    IF uv_index > 7
    THEN Advise(st,
           << ClothingRecommendation("sunscreen", 5,
                  <<"Very high UV index - sunscreen essential", uv_index>>),
              ClothingRecommendation("sunglasses", 4,
                  <<"Protect eyes from intense UV">>),
              ClothingRecommendation("hat", 4,
                  <<"Protect head from intense sun">>) >>,
           << "Seek shade during peak sun hours (10 AM - 4 PM)",
              "Reapply sunscreen every 2 hours" >>)
    ELSE IF uv_index > 5
    THEN Advise(st,
           << ClothingRecommendation("sunscreen", 4,
                  <<"High UV index - sunscreen recommended", uv_index>>),
              ClothingRecommendation("sunglasses", 3, <<"Protect eyes from UV">>) >>,
           << "Apply sunscreen before going outside" >>)
    ELSE st

\* clothing.py 251-255
HumidityAdvice(st, humidity) ==
    IF humidity > 80
    THEN Advise(st, << >>,
           << "High humidity - wear breathable fabrics",
              "Stay hydrated and take frequent breaks" >>)
    ELSE IF humidity < 30
    THEN Advise(st, << >>,
           << "Low humidity - use moisturizer and stay hydrated" >>)
    ELSE st

\* clothing.py 258-262
ForecastTypeAdvice(st, forecast_type) ==
    IF forecast_type = "long_term"
    THEN Advise(st, << >>,
           << "Plan ahead for seasonal weather changes",
              "Consider versatile clothing options" >>)
    ELSE Advise(st, << >>, << "Check weather updates throughout the day" >>)

\* The list as the four rules leave it, before the sort.
Emitted(wd) ==
    LET temp          == Get(wd, "temperature", 20)
        wind_speed    == Get(wd, "wind_speed", 10)
        precipitation == Get(wd, "precipitation", 0)
        uv_index      == Get(wd, "uv_index", 5)
        s0 == [recommendations |-> << >>, comfort_tips |-> << >>]
        s1 == TemperatureAdvice(s0, temp)
        s2 == PrecipitationAdvice(s1, precipitation)
        s3 == WindAdvice(s2, wind_speed)
    IN UvAdvice(s3, uv_index)

\* list.sort(key=lambda x: x.priority, reverse=True): stable, so x goes
\* behind every element whose priority is at least its own.
RECURSIVE InsertByPriority(_, _)
InsertByPriority(sorted, x) ==
    IF sorted = << >> THEN <<x>>
    ELSE IF Head(sorted).priority >= x.priority
         THEN <<Head(sorted)>> \o InsertByPriority(Tail(sorted), x)
         ELSE <<x>> \o sorted

RECURSIVE SortByPriorityFrom(_, _, _)
SortByPriorityFrom(list, i, sorted) ==
    IF i > Len(list) THEN sorted
    ELSE SortByPriorityFrom(list, i + 1, InsertByPriority(sorted, list[i]))

\* (mutant: a sort that leaves equal priorities in reverse order of emission).
SortByPriority_unstable(list) ==
    SortByPriorityFrom([i \in 1..Len(list) |-> list[Len(list) + 1 - i]], 1, << >>)

SortByPriority(list) == SortByPriorityFrom(list, 1, << >>)

OutfitRecommendation(location, forecast_type, recommendations, comfort_tips) ==
    [location |-> location, forecast_type |-> forecast_type,
     recommendations |-> recommendations, comfort_tips |-> comfort_tips]

NoOutfit == OutfitRecommendation("", "", << >>, << >>)

\* What a get_recommendations call left behind.
OutfitResponse(raised, outfit) ==
    [op |-> "get_recommendations", raised |-> raised, outfit |-> outfit]

\* A WeatherData object has no get: the first lookup (line 23) raises.
get_recommendations(wd, forecast_type, location) ==
    IF wd.kind = "model" THEN OutfitResponse("AttributeError", NoOutfit)
    ELSE LET humidity == Get(wd, "humidity", 50)
             s4 == Emitted(wd)
             s5 == HumidityAdvice(s4, humidity)
             s6 == ForecastTypeAdvice(s5, forecast_type)
         IN OutfitResponse("none",
                OutfitRecommendation(location, forecast_type,
                                     SortByPriority(s6.recommendations),
                                     s6.comfort_tips))

\* ------------------------------------------------ clothing requests alone

\* The readings of the clothing requests: every band of every rule, a rule
\* at its thresholds, and a WeatherData object.
ClothingReadings ==
    [kind : ReadingKinds, temperature : {-3, 0, 5, 10, 15, 20, 25, 28, 30, 35},
     humidity : {25, 50, 85}, wind_speed : {10, 15, 18, 20, 25},
     precipitation : {0, 2, 6, 10, 16}, visibility : {10}, uv_index : {2, 5, 6, 7, 9},
     condition : {"sunny"}, absent : {{}}]

InitClothing ==
    /\ events = sample_events
    /\ weather_data \in ClothingReadings
    /\ response = NoResponse
    /\ earlier = NoResponse
    /\ calls = NoCalls
    /\ database = init_db(Table(events))
    /\ startup = "serving"

GetClothingRecommendations ==
    \E forecast_type \in ForecastTypes, location \in {"Almaty"} :
        /\ response' = get_recommendations(weather_data, forecast_type, location)
        /\ UNCHANGED <<events, weather_data, earlier, calls, database, startup>>

SpecClothing == InitClothing /\ [][GetClothingRecommendations]_vars

\* --------------------------- SeasonalProbabilityModel (ml/probabilities.py)
\*
\* Latitudes are in tenths of a degree and longitudes in whole degrees.
\* Before rounding a probability is in thousandths and an average in
\* hundredths of its unit; a reported probability (round(x, 2)) is in
\* hundredths, a reported average (round(x, 1)) in tenths.

\* round(x, 2) of thousandths and round(x, 1) of hundredths: to the nearest,
\* a half going up.
RoundOff(x) == (x + 5) \div 10

\* self.climate_zones, in the order the dict was written (mutant: a table
\* whose temperate range reaches up to 55 degrees).
climate_zones_wide ==
    << [zone |-> "tropical",    lat_range |-> <<-235, 235>>],
       [zone |-> "subtropical", lat_range |-> <<235, 350>>],
       [zone |-> "temperate",   lat_range |-> <<350, 550>>],
       [zone |-> "continental", lat_range |-> <<550, 700>>],
       [zone |-> "polar",       lat_range |-> <<700, 900>>] >>

climate_zones ==
    << [zone |-> "tropical",    lat_range |-> <<-235, 235>>],
       [zone |-> "subtropical", lat_range |-> <<235, 350>>],
       [zone |-> "temperate",   lat_range |-> <<350, 500>>],
       [zone |-> "continental", lat_range |-> <<500, 700>>],
       [zone |-> "polar",       lat_range |-> <<700, 900>>] >>

\* min_lat <= abs_lat <= max_lat (mutant: the upper end is left out).
InRange_half_open(abs_lat, lat_range) ==
    lat_range[1] <= abs_lat /\ abs_lat < lat_range[2]

InRange(abs_lat, lat_range) ==
    lat_range[1] <= abs_lat /\ abs_lat <= lat_range[2]

\* The first zone of the table whose range holds abs(latitude);
\* "temperate" when none does.
get_climate_zone(latitude) ==
    LET abs_lat == Abs(latitude)
        hits == {i \in 1..Len(climate_zones) :
                    InRange(abs_lat, climate_zones[i].lat_range)}
    IN IF hits = {} THEN "temperate"
       ELSE climate_zones[CHOOSE i \in hits : \A j \in hits : i <= j].zone

\* is_winter, is_spring, is_summer, is_fall of a month.
Season(month) ==
    IF month \in {12, 1, 2} THEN "winter"
    ELSE IF month \in {3, 4, 5} THEN "spring"
    ELSE IF month \in {6, 7, 8} THEN "summer"
    ELSE "fall"

\* A row of the base table; the probabilities are written in tenths as in
\* the source (0.3 is 3), the averages in whole degrees and millimetres.
BaseRow(very_hot, very_cold, very_wet, very_windy, uncomfortable, avg_temp, avg_precip) ==
    [very_hot |-> very_hot * 100, very_cold |-> very_cold * 100,
     very_wet |-> very_wet * 100, very_windy |-> very_windy * 100,
     uncomfortable |-> uncomfortable * 100,
     avg_temp |-> avg_temp * 100, avg_precip |-> avg_precip * 100]

\* The season is the calendar season of the month: no branch looks at the
\* hemisphere.
_get_base_probabilities(climate_zone, month) ==
    LET season == Season(month)
    IN IF climate_zone \in {"tropical", "subtropical"}
       THEN IF season = "winter" THEN BaseRow(1, 0, 3, 2, 2, 25, 60)
            ELSE IF season = "summer" THEN BaseRow(4, 0, 4, 3, 3, 28, 80)
            ELSE BaseRow(2, 0, 3, 2, 2, 26, 70)
       ELSE IF climate_zone = "temperate"
       THEN IF season = "winter" THEN BaseRow(0, 3, 4, 4, 3, 5, 80)
            ELSE IF season = "summer" THEN BaseRow(2, 0, 2, 3, 2, 22, 50)
            ELSE IF season = "spring" THEN BaseRow(1, 1, 3, 4, 2, 15, 70)
            ELSE BaseRow(1, 2, 3, 3, 2, 12, 60)
       ELSE IF climate_zone = "continental"
       THEN IF season = "winter" THEN BaseRow(0, 6, 2, 5, 5, -10, 30)
            ELSE IF season = "summer" THEN BaseRow(3, 0, 3, 2, 2, 20, 60)
            ELSE BaseRow(1, 3, 2, 4, 3, 5, 40)
       ELSE IF season = "winter" THEN BaseRow(0, 8, 1, 6, 7, -25, 20)
            ELSE IF season = "summer" THEN BaseRow(0, 2, 2, 4, 3, 5, 40)
            ELSE BaseRow(0, 5, 1, 5, 5, -10, 25)

_get_latitude_adjustments(latitude, month) ==
    LET abs_lat == Abs(latitude)
    IN IF abs_lat > 600
       THEN [very_cold |-> IF month \in {12, 1, 2} THEN 200 ELSE -100,
             very_hot  |-> IF month \in {6, 7, 8} THEN 100 ELSE -100]
       ELSE IF abs_lat > 400
       THEN [very_cold |-> IF month \in {12, 1, 2} THEN 100 ELSE -50,
             very_hot  |-> IF month \in {6, 7, 8} THEN 100 ELSE -50]
       ELSE EmptyRequirements

_get_longitude_adjustments(longitude, latitude) ==
    IF -100 < longitude /\ longitude < 100
    THEN [very_hot |-> 100, very_cold |-> 100, very_windy |-> 100]
    ELSE [very_hot |-> -100, very_cold |-> -100, very_wet |-> 100]

\* adjustments.get(key, 0)
AdjustmentOf(adjustments, key) ==
    IF key \in DOMAIN adjustments THEN adjustments[key] ELSE 0

\* 1 in the unit of a key: 1000 thousandths for a probability, 100
\* hundredths for an average.
One(key) == IF key \in {"avg_temp", "avg_precip"} THEN 100 ELSE 1000

\* max(0, min(1, x)) (mutant: the sum is passed on as it is).
Clamp01_missing(x, one) == x

Clamp01(x, one) == Max(0, Min(one, x))

\* The loop over the keys of base_probs: every key is clamped, the two
\* averages included.
CombineAdjustments(base_probs, lat_adjustments, lon_adjustments) ==
    [key \in DOMAIN base_probs |->
        Clamp01(base_probs[key] + AdjustmentOf(lat_adjustments, key)
                                + AdjustmentOf(lon_adjustments, key),
                One(key))]

\* month_names[month - 1] of a list indexed from 0.
_get_month_name(month) ==
    << "January", "February", "March", "April", "May", "June",
       "July", "August", "September", "October", "November", "December" >>[month]

ClimateProbability(very_hot, very_cold, very_wet, very_windy, uncomfortable) ==
    [very_hot |-> very_hot, very_cold |-> very_cold, very_wet |-> very_wet,
     very_windy |-> very_windy, uncomfortable |-> uncomfortable]

MonthlyOutlook(month, probabilities, avg_temperature, avg_precipitation) ==
    [month |-> month, month_name |-> _get_month_name(month),
     probabilities |-> probabilities, avg_temperature |-> avg_temperature,
     avg_precipitation |-> avg_precipitation]

\* The report built from the combined values.
MonthReport(month, final_probs) ==
    MonthlyOutlook(month,
        ClimateProbability(RoundOff(final_probs.very_hot),
                           RoundOff(final_probs.very_cold),
                           RoundOff(final_probs.very_wet),
                           RoundOff(final_probs.very_windy),
                           RoundOff(final_probs.uncomfortable)),
        RoundOff(final_probs.avg_temp), RoundOff(final_probs.avg_precip))

_calculate_month_probabilities(month, climate_zone, latitude, longitude) ==
    MonthReport(month,
        CombineAdjustments(_get_base_probabilities(climate_zone, month),
                           _get_latitude_adjustments(latitude, month),
                           _get_longitude_adjustments(longitude, latitude)))

\* months_ahead: int = 6, and range(6) of get_long_term_forecast.
months_ahead == 6

MonthAhead_from_next(current_month, i) == ((current_month + i) % 12) + 1

\* month = (current_month + i - 1) % 12 + 1, i counted from 0.
MonthAhead(current_month, i) == ((current_month + i - 1) % 12) + 1

\* What a forecast call left behind: its arguments, the month it ran in, the
\* zone it worked with ("" when it uses none) and the list it returned.
ForecastResponse(op, latitude, longitude, n, current_month, climate_zone, outlooks) ==
    [op |-> op, raised |-> "none", latitude |-> latitude, longitude |-> longitude,
     months_ahead |-> n, current_month |-> current_month,
     climate_zone |-> climate_zone, outlooks |-> outlooks]

\* n is the months_ahead argument; range(n) is empty when n is 0.
calculate_monthly_probabilities(latitude, longitude, n, current_month) ==
    LET climate_zone == get_climate_zone(latitude)
    IN ForecastResponse("calculate_monthly_probabilities", latitude, longitude,
           n, current_month, climate_zone,
           [k \in 1..n |->
               _calculate_month_probabilities(MonthAhead(current_month, k - 1),
                                              climate_zone, latitude, longitude)])

\* ------------------- WeatherService.get_long_term_forecast (258-350)

\* random.uniform(a, b) is a + (b - a) * random(); the values of random()
\* a call may see, in thousandths.
Fractions == {0, 337, 999}

uniform(a, b, fraction) == a + ((b - a) * fraction) \div 1000

\* The six draws of one outlook, in the order the code makes them.
DrawNames ==
    <<"very_hot", "very_cold", "very_wet", "very_windy", "avg_temp", "avg_precip">>

\* The outcomes of random() during one call: a fraction for each draw of an
\* outlook, the k-th outlook of the call taking them k places further on.
RandomOutcomes == [1..Len(DrawNames) -> Fractions]

DrawOf(outcomes, k, n) == outcomes[((n + k - 2) % Len(DrawNames)) + 1]

\* is_northern_hemisphere = lat > 0; otherwise the four flags are swapped.
OutlookSeason(month, lat) ==
    LET season == Season(month)
    IN IF lat > 0 THEN season
       ELSE IF season = "winter" THEN "summer"
       ELSE IF season = "spring" THEN "fall"
       ELSE IF season = "summer" THEN "winter"
       ELSE "spring"

\* The ends of the ranges the values of a season are drawn from:
\* probabilities in thousandths, averages in hundredths.
SeasonRanges(season) ==
    IF season = "summer"
    THEN [very_hot |-> <<400, 800>>, very_cold |-> <<0, 100>>,
          very_wet |-> <<100, 400>>, very_windy |-> <<200, 500>>,
          avg_temp |-> <<2000, 3000>>, avg_precip |-> <<2000, 8000>>]
    ELSE IF season = "winter"
    THEN [very_hot |-> <<0, 100>>, very_cold |-> <<300, 700>>,
          very_wet |-> <<200, 600>>, very_windy |-> <<300, 600>>,
          avg_temp |-> <<-500, 1000>>, avg_precip |-> <<3000, 10000>>]
    ELSE IF season = "spring"
    THEN [very_hot |-> <<100, 300>>, very_cold |-> <<100, 300>>,
          very_wet |-> <<200, 500>>, very_windy |-> <<300, 600>>,
          avg_temp |-> <<1000, 2000>>, avg_precip |-> <<4000, 9000>>]
    ELSE [very_hot |-> <<100, 400>>, very_cold |-> <<100, 400>>,
          very_wet |-> <<200, 500>>, very_windy |-> <<200, 500>>,
          avg_temp |-> <<500, 2000>>, avg_precip |-> <<3000, 8000>>]

\* min(1.0, (very_hot + very_cold + very_windy) / 3 + very_wet * 0.5) of the
\* values as drawn, rounded to two decimals; the sum is kept in six
\* thousandths so that the third and the half are whole.
Uncomfortable(very_hot, very_cold, very_wet, very_windy) ==
    LET sixfold == 2 * (very_hot + very_cold + very_windy) + 3 * very_wet
    IN (Min(6000, sixfold) + 30) \div 60

_generate_monthly_outlook(month, lat, lon, outcomes, k) ==
    LET ranges == SeasonRanges(OutlookSeason(month, lat))
        drawn == [n \in 1..Len(DrawNames) |->
                     uniform(ranges[DrawNames[n]][1], ranges[DrawNames[n]][2],
                             DrawOf(outcomes, k, n))]
    IN MonthlyOutlook(month,
           ClimateProbability(RoundOff(drawn[1]), RoundOff(drawn[2]),
                              RoundOff(drawn[3]), RoundOff(drawn[4]),
                              Uncomfortable(drawn[1], drawn[2], drawn[3], drawn[4])),
           RoundOff(drawn[5]), RoundOff(drawn[6]))

get_long_term_forecast(lat, lon, current_month, outcomes) ==
    ForecastResponse("get_long_term_forecast", lat, lon, months_ahead, current_month, "",
        [k \in 1..months_ahead |->
            _generate_monthly_outlook(MonthAhead(current_month, k - 1), lat, lon,
                                      outcomes, k)])

\* ------------------------------------------------ seasonal outlooks alone

\* Tenths of a degree: both hemispheres, the equator, every end of a zone's
\* range with a neighbour on either side, and a value beyond the pole.
Latitudes ==
    { -900, -510, -400, -235, -100, 0, 100, 234, 235, 236, 349, 350, 351,
      400, 401, 499, 500, 501, 510, 600, 601, 699, 700, 701, 900, 910 }

Longitudes == {-120, -100, 0, 77, 100}

\* The places the long-term forecast is asked for.
ForecastLatitudes == {-400, 0, 510}

Months == 1..12

InitSeasonal ==
    /\ events = sample_events
    /\ weather_data = DefaultReading
    /\ response = NoResponse
    /\ earlier = NoResponse
    /\ calls = NoCalls
    /\ database = init_db(Table(events))
    /\ startup = "serving"

\* A forecast is asked for once the previous answer has been handed over, for
\* no month at all, for the default six, or for up to more than a year.
CalculateMonthlyProbabilities ==
    /\ response = NoResponse
    /\ \E latitude \in Latitudes, longitude \in Longitudes, n \in 0..MaxMonthsAhead,
          current_month \in Months :
          response' = calculate_monthly_probabilities(latitude, longitude, n,
                                                      current_month)
    /\ UNCHANGED <<events, weather_data, earlier, calls, database, startup>>

GetLongTermForecast ==
    /\ response = NoResponse
    /\ \E lat \in ForecastLatitudes, current_month \in Months,
          outcomes \in RandomOutcomes :
          response' = get_long_term_forecast(lat, 77, current_month, outcomes)
    /\ UNCHANGED <<events, weather_data, earlier, calls, database, startup>>

\* The caller has the list; nothing of the call is left in the service.
ForecastReturned ==
    /\ response.op \in {"calculate_monthly_probabilities", "get_long_term_forecast"}
    /\ response' = NoResponse
    /\ UNCHANGED <<events, weather_data, earlier, calls, database, startup>>

SpecSeasonal ==
    InitSeasonal
    /\ [][CalculateMonthlyProbabilities \/ GetLongTermForecast \/ ForecastReturned]_vars

\* ------------------- the long-term path of /events/recommendations (86-100)

\* Values of random() for which every average drawn is a whole number of
\* degrees and of millimetres, which the units of a reading can hold: the
\* low end of every range and four fifths of the way up.
RouteFractions == {0, 800}

LongTermReading_without_precipitation(outlook) ==
    [DefaultReading EXCEPT !.temperature = outlook.avg_temperature \div 10,
                           !.humidity = 60, !.wind_speed = 10, !.condition = "sunny",
                           !.absent = {"precipitation", "visibility", "uv_index"}]

\* The dict the route builds from the first monthly outlook: the averages are
\* in tenths, the reading holds degrees and half millimetres; visibility and
\* uv_index are not keys of it.
LongTermReading(outlook) ==
    [DefaultReading EXCEPT !.temperature = outlook.avg_temperature \div 10,
                           !.humidity = 60, !.wind_speed = 10,
                           !.precipitation = outlook.avg_precipitation \div 5,
                           !.condition = "sunny",
                           !.absent = {"visibility", "uv_index"}]

\* The service object is up and no request is being served.
InitLongTerm ==
    /\ events \in Catalogs
    /\ weather_data = DefaultReading
    /\ response = NoResponse
    /\ earlier = NoResponse
    /\ calls = NoCalls
    /\ database = init_db(Table(events))
    /\ startup = "serving"

\* GET /events/recommendations with forecast_type long_term: the forecast,
\* the reading built from its first outlook, and the recommendations.
LongTermRecommendations ==
    /\ response = NoResponse
    /\ \E lat \in ForecastLatitudes, current_month \in Months,
          outcomes \in [1..Len(DrawNames) -> RouteFractions], categories \in CategoryFilters :
          LET forecast == get_long_term_forecast(lat, 77, current_month, outcomes)
              reading == LongTermReading(forecast.outlooks[1])
          IN /\ weather_data' = reading
             /\ response' = get_event_recommendations(Self, reading, "long_term",
                                                      categories)
             /\ events' = events_after_filter(Self, FilterEvents(events, categories))
    /\ UNCHANGED <<earlier, calls, database, startup>>

\* The route has returned the list; its reading is gone with it.
RecommendationsReturned ==
    /\ response.op = "get_event_recommendations"
    /\ response' = NoResponse
    /\ weather_data' = DefaultReading
    /\ UNCHANGED <<events, earlier, calls, database, startup>>

SpecLongTerm ==
    InitLongTerm /\ [][LongTermRecommendations \/ RecommendationsReturned]_vars

\* ------------------------------------------- readings with missing keys

\* A keyed reading from which some keys have been left out, as the long-term
\* path leaves out visibility and uv_index; what the slots of those keys
\* hold is never part of the reading.
Without(r, keys) == [r EXCEPT !.absent = keys]

\* A cold wet day, a hot stormy one and the default day.
PartialBases ==
    { [DefaultReading EXCEPT !.temperature = -5, !.humidity = 85,
                             !.wind_speed = 22, !.precipitation = 16,
                             !.visibility = 3, !.uv_index = 9,
                             !.condition = "rainy"],
      [DefaultReading EXCEPT !.temperature = 35, !.wind_speed = 3,
                             !.uv_index = 9, !.condition = "stormy"],
      DefaultReading }

PartialReadings ==
    { Without(r, keys) : r \in PartialBases, keys \in SUBSET ReadingFields }

InitPartial ==
    /\ events = sample_events
    /\ weather_data \in PartialReadings
    /\ response = NoResponse
    /\ earlier = NoResponse
    /\ calls = NoCalls
    /\ database = init_db(Table(events))
    /\ startup = "serving"

SpecPartial ==
    InitPartial
    /\ [][CalculateEventScore \/ GetEventRecommendations
            \/ GetClothingRecommendations]_vars

\* --------------------------------------------------- concurrent calls
\*
\* Several requests are served at once by the one EventScoringService of
\* routes.py; their calls run step by step in any order.  A step is one of
\* the blocks of _calculate_score, so that a call stands between its blocks
\* with its locals half computed while another call runs.

\* Where the locals of _calculate_score live for a caller: in its own frame
\* (mutant: on the service object, the same for every caller).
Owner_instance(t) == 1

Owner(t) == t

InFlight(call) == call.pc \notin {"idle", "done"}

\* A cold wet day and the default day, keyed, and a WeatherData object.
ConcurrentReadings ==
    { DefaultReading,
      [DefaultReading EXCEPT !.temperature = -5, !.humidity = 85,
                             !.precipitation = 16, !.condition = "rainy"],
      [DefaultReading EXCEPT !.kind = "model"] }

\* The frames once caller t has put its new frame up: it notes whether
\* another call is in flight, and every call in flight notes this one.
Started(t, frame) ==
    [u \in Callers |->
        IF u = t
        THEN [frame EXCEPT !.concurrent =
                 \E v \in Callers \ {t} : InFlight(calls[v])]
        ELSE IF InFlight(calls[u]) THEN [calls[u] EXCEPT !.concurrent = TRUE]
        ELSE calls[u]]

\* The frames once caller t has taken a step: its own frame replaced, and
\* the locals of _calculate_score written where they live.
Stepped(t, frame, locals) ==
    [u \in Callers |->
        LET call == IF u = t THEN frame ELSE calls[u]
        IN IF u = Owner(t) THEN [call EXCEPT !.locals = locals] ELSE call]

\* The call has returned or raised; its locals are gone.
Done(call, raised, result, results) ==
    [call EXCEPT !.pc = "done",
                 !.result = Response(call.op, call.event_id, call.categories,
                                     raised, result, results, 0)]

\* The for statement of get_event_recommendations: the next entry, or the
\* sort and the return once the list is exhausted.
Continue(call) ==
    IF call.acc.raised # "none"
    THEN Done(call, call.acc.raised, NoResult, << >>)
    ELSE IF call.i > Len(call.filtered_events)
    THEN Done(call, "none", NoResult, TopTen(SortByScore(call.acc.recommendations)))
    ELSE [call EXCEPT !.pc = "enter"]

\* _calculate_score raised: calculate_event_score lets the exception out,
\* the loop of get_event_recommendations handles it and goes on.
Raise(call, error) ==
    IF call.op = "calculate_event_score"
    THEN Done(call, error, NoResult, << >>)
    ELSE Continue([call EXCEPT !.acc = OnEvaluationError(@, error), !.i = @ + 1])

\* _calculate_score returned r for the entry the call is at.
Return(call, r) ==
    LET event == call.filtered_events[call.i]
    IN IF call.op = "calculate_event_score"
       THEN Done(call, "none", EventSuitabilityScore(call.event_id, event.name, r),
                 << >>)
       ELSE Continue([call EXCEPT
                !.acc = IF Suitable(r.score, event)
                        THEN [@ EXCEPT !.recommendations =
                                 Append(@, EventSuitabilityScore(event.id,
                                                                 event.name, r))]
                        ELSE @,
                !.i = @ + 1])

InitConcurrent ==
    /\ events = SubSeq(sample_events, 1, 3) \o <<BrokenText>>
    /\ weather_data = DefaultReading
    /\ response = NoResponse
    /\ earlier = NoResponse
    /\ calls = NoCalls
    /\ database = init_db(Table(events))
    /\ startup = "serving"

\* calculate_event_score up to the call of _calculate_score (11-15).
BeginCalculateEventScore(t) ==
    /\ calls[t].pc = "idle"
    /\ \E event_id \in {"concert", "museum", "picnic"}, wd \in ConcurrentReadings :
          LET i == FindEvent(events, event_id)
              call == [IdleCall EXCEPT !.op = "calculate_event_score",
                                       !.event_id = event_id, !.wd = wd]
          IN calls' = Started(t,
                 IF i = 0 THEN Done(call, "ValueError", NoResult, << >>)
                 ELSE [call EXCEPT !.pc = "enter",
                                   !.filtered_events = <<events[i]>>, !.i = 1])
    /\ UNCHANGED <<events, weather_data, response, earlier, database, startup>>

\* get_event_recommendations up to the for statement (29-36).
BeginGetEventRecommendations(t) ==
    /\ calls[t].pc = "idle"
    /\ \E categories \in {NoCategories, Categories({"sunny_friendly"})}, wd \in ConcurrentReadings :
          LET filtered_events == FilterEvents(events, categories)
          IN /\ calls' = Started(t,
                    Continue([IdleCall EXCEPT !.op = "get_event_recommendations",
                                              !.categories = categories, !.wd = wd,
                                              !.filtered_events = filtered_events,
                                              !.i = 1]))
             /\ events' = events_after_filter(Self, filtered_events)
    /\ UNCHANGED <<weather_data, response, earlier, database, startup>>

\* _calculate_score, lines 57-66: the fresh locals and the keyed lookups.
EnterCalculateScore(t) ==
    /\ calls[t].pc = "enter"
    /\ calls' = IF calls[t].wd.kind # "dict"
                THEN Stepped(t, Raise(calls[t], "AttributeError"),
                             calls[Owner(t)].locals)
                ELSE Stepped(t, [calls[t] EXCEPT !.pc = "rules"], FreshLocals)
    /\ UNCHANGED <<events, weather_data, response, earlier, database, startup>>

\* _calculate_score, lines 68-113: the requirement rules.
ApplyRequirementRules(t) ==
    /\ calls[t].pc = "rules"
    /\ LET event == calls[t].filtered_events[calls[t].i]
           error == EvaluationError(event, calls[t].wd)
       IN calls' = IF error # "none"
                   THEN Stepped(t, Raise(calls[t], error), NoLocals)
                   ELSE Stepped(t, [calls[t] EXCEPT !.pc = "adjust"],
                                RequirementRules(calls[Owner(t)].locals, event,
                                                 calls[t].wd))
    /\ UNCHANGED <<events, weather_data, response, earlier, database, startup>>

\* _calculate_score, lines 115-145: the category and comfort adjustments.
ApplyAdjustments(t) ==
    /\ calls[t].pc = "adjust"
    /\ calls' = Stepped(t, [calls[t] EXCEPT !.pc = "finish"],
                        Adjustments(calls[Owner(t)].locals,
                                    calls[t].filtered_events[calls[t].i],
                                    calls[t].wd))
    /\ UNCHANGED <<events, weather_data, response, earlier, database, startup>>

\* _calculate_score, lines 148-160, and the caller's use of what it returns.
FinishCalculateScore(t) ==
    /\ calls[t].pc = "finish"
    /\ calls' = Stepped(t, Return(calls[t], Finish(calls[Owner(t)].locals)),
                        NoLocals)
    /\ UNCHANGED <<events, weather_data, response, earlier, database, startup>>

\* The caller has its answer and may call again.
CallReturned(t) ==
    /\ calls[t].pc = "done"
    /\ calls' = [calls EXCEPT ![t] = IdleCall]
    /\ UNCHANGED <<events, weather_data, response, earlier, database, startup>>

NextConcurrent ==
    \E t \in Callers :
        \/ BeginCalculateEventScore(t)
        \/ BeginGetEventRecommendations(t)
        \/ EnterCalculateScore(t)
        \/ ApplyRequirementRules(t)
        \/ ApplyAdjustments(t)
        \/ FinishCalculateScore(t)
        \/ CallReturned(t)

SpecConcurrent == InitConcurrent /\ [][NextConcurrent]_vars

\* ================================================================ claims

Returned(op) == response.op = op /\ response.raised = "none"

\* The index in the catalog of the entry a result was computed for.
EntryOf(result) == FindEvent(events, result.event_id)

\* The entries whose evaluation does not fail on this reading.
Evaluated(catalog, wd) ==
    SelectSeq(catalog, LAMBDA e : _calculate_score(e, wd).raised = "none")

\* An absent or empty filter selects every entry.
InFilter(e, categories) ==
    categories.is_none \/ categories.names = {} \/ e.category \in categories.names

\* C1: every score that _calculate_score, calculate_event_score or
\* get_event_recommendations returns lies in [0,100], whatever the penalties
\* and the bonus add up to.
C1_ScoreInBounds ==
    /\ \A i \in 1..Len(events) :
          LET r == _calculate_score(events[i], weather_data)
          IN r.raised = "none" => (r.score >= 0 /\ r.score <= 100)
    /\ Returned("calculate_event_score") =>
          (response.result.score >= 0 /\ response.result.score <= 100)
    /\ Returned("get_event_recommendations") =>
          \A k \in 1..Len(response.results) :
              response.results[k].score >= 0 /\ response.results[k].score <= 100

\* A concert under 50 mm of rain: the penalties exceed 100 and the score is 0.
C1_Witness ==
    /\ Returned("calculate_event_score")
    /\ response.event_id = "concert"
    /\ weather_data.precipitation > 100
    /\ response.result.score = 0

\* C2: get_event_recommendations returns at most 10 results, sorted
\* non-increasing by score.
C2_AtMostTenSorted ==
    Returned("get_event_recommendations") =>
        /\ Len(response.results) <= 10
        /\ \A k \in 1..(Len(response.results) - 1) :
              response.results[k].score >= response.results[k + 1].score

\* More than 10 entries qualify, with different scores: 10 are returned.
C2_Witness ==
    /\ Returned("get_event_recommendations")
    /\ Len(response.results) = 10
    /\ response.results[1].score > response.results[10].score
    /\ Len(ScoreEvents(FilterEvents(events, response.categories), 1, weather_data,
                       [raised |-> "none", recommendations |-> << >>]).recommendations) > 10

\* C3: every returned result belongs to an entry of a filtered category and
\* reaches that entry's min_comfort_score; when fewer than 10 results are
\* returned, every evaluated entry of a filtered category that reaches its
\* min_comfort_score is among them.
C3_FilterAndThreshold ==
    Returned("get_event_recommendations") =>
        /\ \A k \in 1..Len(response.results) :
              LET i == EntryOf(response.results[k])
              IN /\ i # 0
                 /\ InFilter(events[i], response.categories)
                 /\ response.results[k].score >= events[i].min_comfort_score
                 /\ response.results[k].event_name = events[i].name
        /\ Len(response.results) < 10 =>
              \A i \in 1..Len(events) :
                  LET r == _calculate_score(events[i], weather_data)
                  IN (/\ InFilter(events[i], response.categories)
                      /\ r.raised = "none"
                      /\ r.score >= events[i].min_comfort_score)
                     => \E k \in 1..Len(response.results) :
                            /\ response.results[k].event_id = events[i].id
                            /\ response.results[k].score = r.score

\* A filter of two categories over the large catalog: entries of other
\* categories are left out, skiing is dropped for its score, and the first
\* extra row is kept with a score equal to its min_comfort_score.
C3_Witness ==
    /\ Returned("get_event_recommendations")
    /\ response.categories = Categories({"rain_compatible", "cold_weather"})
    /\ Len(events) > 10
    /\ \E k \in 1..Len(response.results) :
          /\ response.results[k].event_id = "e1"
          /\ response.results[k].score = events[EntryOf(response.results[k])].min_comfort_score
    /\ \A k \in 1..Len(response.results) : response.results[k].event_id # "skiing"

\* C4: an entry whose evaluation fails is skipped and nothing else changes:
\* the call returns, and returns what it returns for the catalog without the
\* failing entries.
C4_FailureSkipsEntry ==
    response.op = "get_event_recommendations" =>
        /\ response.raised = "none"
        /\ \A forecast_type \in ForecastTypes :
              response = get_event_recommendations(
                             [events |-> Evaluated(events, weather_data)],
                             weather_data, forecast_type, response.categories)

\* A failing entry between two good ones: the entries on both sides are returned.
C4_Witness ==
    /\ Returned("get_event_recommendations")
    /\ FindEvent(events, "broken_text") = 4
    /\ weather_data.kind = "dict"
    /\ InFilter(events[4], response.categories)
    /\ \E k \in 1..Len(response.results) : EntryOf(response.results[k]) < 4
    /\ \E k \in 1..Len(response.results) : EntryOf(response.results[k]) > 4

\* C5: calculate_event_score raises not-found exactly when the id is in no
\* catalog entry, and otherwise returns a result with that id and the
\* matching entry's name.
C5_LookupContract ==
    response.op = "calculate_event_score" =>
        LET i == FindEvent(events, response.event_id)
        IN IF i = 0
           THEN response.raised = "ValueError"
           ELSE /\ response.raised = "none"
                /\ response.result.event_id = response.event_id
                /\ response.result.event_name = events[i].name

\* The entry of the last calculate_event_score call, and its
\* max_precipitation threshold in half millimetres.
ScoredEvent == events[FindEvent(events, response.event_id)]

AboveMaxPrecipitation ==
    /\ Returned("calculate_event_score")
    /\ Has(ScoredEvent.weather_requirements, "max_precipitation")
    /\ weather_data.precipitation
          > 2 * ScoredEvent.weather_requirements.num["max_precipitation"]

ScoreWithPrecipitation(p) ==
    _calculate_score(ScoredEvent, [weather_data EXCEPT !.precipitation = p]).score

OverlayReasons ==
    ("sunny_friendly" :> <<"Weather not suitable for outdoor sunny activities">>)
    @@ ("rain_compatible" :> <<"Perfect weather for this indoor activity">>)
    @@ ("wind_based" :> <<"Insufficient wind for wind-based activities">>)
    @@ ("cold_weather" :> <<"Too warm for cold-weather activities">>)

\* The overlay rules that fired, read off the reasons of a result.
OverlaysFired(reasons) ==
    { c \in DOMAIN OverlayReasons :
        \E k \in 1..Len(reasons) : reasons[k] = OverlayReasons[c] }

OverlayCount(reasons) ==
    Cardinality({ k \in 1..Len(reasons) :
                    \E c \in DOMAIN OverlayReasons : reasons[k] = OverlayReasons[c] })

\* C7: in one evaluation at most one category overlay rule fires, only the
\* rule of the activity's own category, and none for any other category.
C7_AtMostOneOverlay ==
    \A i \in 1..Len(events) :
        LET r == _calculate_score(events[i], weather_data)
        IN r.raised = "none" =>
              /\ OverlayCount(r.reasons) <= 1
              /\ OverlaysFired(r.reasons) \subseteq {events[i].category}

\* Skiing on a mild, calm day: the conditions of the wind_based and the
\* cold_weather rule both hold, and the cold_weather rule alone fires.
C7_Witness ==
    /\ Returned("calculate_event_score")
    /\ response.event_id = "skiing"
    /\ weather_data.wind_speed < 5
    /\ weather_data.temperature > 10
    /\ OverlaysFired(response.result.reasons) = {"cold_weather"}

ExpectedComfort(w) ==
    LET temperature2 == Max(0, 200 - Abs(2 * w.temperature - 45) * 4)
        humidity2    == Max(0, 200 - Abs(w.humidity - 50) * 3)
        wind2        == Max(0, 200 - Abs(w.wind_speed - 8) * 10)
        penalties    == Min(50, w.precipitation * 5)
                        + Min(30, Max(0, w.uv_index - 6) * 5)
                        + Min(20, Max(0, 10 - w.visibility) * 2)
        raw          == temperature2 + humidity2 + wind2 - 6 * penalties
    IN IF raw < 0 THEN 0 ELSE IF raw > 600 THEN 600 ELSE raw

\* C9: the comfort index lies in [0,100] and is the mean of the three
\* sub-scores minus the three penalties, clamped.
C9_ComfortIndex ==
    response.op = "_calculate_comfort_index" =>
        /\ response.comfort >= 0
        /\ response.comfort <= 600
        /\ response.comfort = ExpectedComfort(weather_data)

\* A cold, wet, hazy day under a high UV index: the penalties exceed the mean
\* and the index is 0.
C9_Witness ==
    /\ response.op = "_calculate_comfort_index"
    /\ response.comfort = 0
    /\ weather_data.temperature < 0
    /\ weather_data.precipitation > 10
    /\ weather_data.uv_index > 6

\* C10: no call changes the catalog.
C10_CatalogUnchanged == [][events' = events]_vars

\* A call with a category filter over a catalog with failing entries, some of
\* them of a filtered category and skipped.
C10_Witness ==
    /\ Returned("get_event_recommendations")
    /\ events = sample_events \o <<BrokenText, BrokenNull>>
    /\ response.categories = Categories({"rain_compatible", "cold_weather"})
    /\ weather_data.kind = "dict"
    /\ Len(response.results) > 0
    /\ Len(response.results) < Len(FilterEvents(events, response.categories))

\* ------------------------------------------------------------- clothing

\* The place of an entry in a list of recommendations, 0 when it is not there.
PlaceIn(list, rec) ==
    LET hits == {k \in 1..Len(list) : list[k] = rec}
    IN IF hits = {} THEN 0 ELSE CHOOSE k \in hits : \A j \in hits : k <= j

\* The rule an entry comes from, by its reason: 1 temperature,
\* 2 precipitation, 3 wind, 4 UV.
RuleOf(rec) ==
    IF rec.reason[1] \in {"Heavy rain expected - umbrella essential",
                          "Waterproof footwear for wet conditions",
                          "Waterproof jacket recommended",
                          "Light rain expected", "Light rain protection"}
    THEN 2
    ELSE IF rec.reason[1] \in {"Windy conditions - windproof jacket recommended",
                               "Secure hat to protect from wind",
                               "Moderate wind - light windbreaker"}
    THEN 3
    ELSE IF rec.reason[1] \in {"Very high UV index - sunscreen essential",
                               "Protect eyes from intense UV",
                               "Protect head from intense sun",
                               "High UV index - sunscreen recommended",
                               "Protect eyes from UV"}
    THEN 4
    ELSE 1

\* C12: the list get_recommendations returns is in descending priority, and
\* entries of equal priority stand in the order the rules emitted them:
\* temperature, precipitation, wind, UV, and within a rule as written.
C12_PriorityOrderStable ==
    Returned("get_recommendations") =>
        LET out == response.outfit.recommendations
            emitted == Emitted(weather_data).recommendations
        IN \A k, l \in 1..Len(out) :
              k < l =>
                 /\ out[k].priority >= out[l].priority
                 /\ out[k].priority = out[l].priority =>
                       /\ RuleOf(out[k]) <= RuleOf(out[l])
                       /\ PlaceIn(emitted, out[k]) > 0
                       /\ PlaceIn(emitted, out[k]) < PlaceIn(emitted, out[l])

\* A hot day under a very high UV index: the temperature rule's sunscreen
\* stands before the UV rule's, both of priority 5, and the four entries of
\* priority 4 follow, the temperature rule's first.
C12_Witness ==
    /\ Returned("get_recommendations")
    /\ weather_data.temperature = 35 /\ weather_data.uv_index = 9
    /\ Len(response.outfit.recommendations) >= 6
    /\ response.outfit.recommendations[1].reason = <<"Essential protection from UV rays">>
    /\ response.outfit.recommendations[2].reason =
          <<"Very high UV index - sunscreen essential", 9>>
    /\ response.outfit.recommendations[3].reason = <<"Protect eyes from bright sun">>
    /\ response.outfit.recommendations[6].reason = <<"Protect head from intense sun">>

\* The rules that name a jacket on this reading: the temperature rule below
\* 20 degrees, the precipitation rule above 1 mm, the wind rule above 15 km/h.
JacketRules(wd) ==
    (IF wd.temperature < 20 THEN 1 ELSE 0)
    + (IF wd.precipitation > 2 * 1 THEN 1 ELSE 0)
    + (IF wd.wind_speed > 15 THEN 1 ELSE 0)

Jackets(list) == SelectSeq(list, LAMBDA rec : rec.item = "jacket")

\* C13: get_recommendations neither merges nor drops entries that name the
\* same item: the returned list holds every emitted entry once, one jacket
\* per rule that names one; at -3 degrees, 8 mm, wind 25 and UV 2 it holds
\* three jackets, of priority 5, 4 and 3, the jacket of priority 5 first.
C13_NoMergingOfItems ==
    Returned("get_recommendations") =>
        LET out == response.outfit.recommendations
            emitted == Emitted(weather_data).recommendations
        IN /\ Len(out) = Len(emitted)
           /\ \A k \in 1..Len(emitted) : PlaceIn(out, emitted[k]) > 0
           /\ Len(Jackets(out)) = JacketRules(weather_data)
           /\ ( /\ weather_data.temperature = -3
                /\ weather_data.precipitation = 2 * 8
                /\ weather_data.wind_speed = 25
                /\ weather_data.uv_index = 2 ) =>
                 /\ Len(Jackets(out)) = 3
                 /\ Jackets(out)[1].priority = 5
                 /\ Jackets(out)[2].priority = 4
                 /\ Jackets(out)[3].priority = 3
                 /\ out[1] = Jackets(out)[1]

\* The reading of the example, answered with nine entries, three of them jackets.
C13_Witness ==
    /\ Returned("get_recommendations")
    /\ weather_data.temperature = -3
    /\ weather_data.precipitation = 2 * 8
    /\ weather_data.wind_speed = 25
    /\ weather_data.uv_index = 2
    /\ Len(response.outfit.recommendations) = 9
    /\ Len(Jackets(response.outfit.recommendations)) = 3
    /\ response.outfit.recommendations[1].item = "jacket"

\* ----------------------------------------------------- seasonal outlooks

SeasonalOps == {"calculate_monthly_probabilities", "get_long_term_forecast"}

\* clamp01((very_hot + very_cold + very_windy) / 3 + very_wet * 0.5) of
\* reported values, in six hundredths.
DerivedUncomfortable(p) ==
    Max(0, Min(600, 2 * (p.very_hot + p.very_cold + p.very_windy) + 3 * p.very_wet))

\* C14: in every monthly outlook of either estimator the reported
\* uncomfortable value is clamp01((very_hot + very_cold + very_windy) / 3 +
\* very_wet * 0.5) of the reported values, to the two decimals reported.
C14_UncomfortableDerived ==
    (response.op \in SeasonalOps) =>
        \A k \in 1..Len(response.outlooks) :
            LET p == response.outlooks[k].probabilities
            IN Abs(6 * p.uncomfortable - DerivedUncomfortable(p)) <= 3

\* The zone by the half-open bands: each band holds its lower end, and
\* everything from 70 degrees up is polar.
ZoneByLowerEnds(latitude) ==
    LET abs_lat == Abs(latitude)
    IN IF abs_lat < 235 THEN "tropical"
       ELSE IF abs_lat < 350 THEN "subtropical"
       ELSE IF abs_lat < 500 THEN "temperate"
       ELSE IF abs_lat < 700 THEN "continental"
       ELSE "polar"

\* The zone by the bands that hold their upper end, the pole being the upper
\* end of the polar band; beyond it the fallback.
ZoneByUpperEnds(latitude) ==
    LET abs_lat == Abs(latitude)
    IN IF abs_lat <= 235 THEN "tropical"
       ELSE IF abs_lat <= 350 THEN "subtropical"
       ELSE IF abs_lat <= 500 THEN "temperate"
       ELSE IF abs_lat <= 700 THEN "continental"
       ELSE IF abs_lat <= 900 THEN "polar"
       ELSE "temperate"

\* C15 as stated: get_climate_zone returns tropical when |lat| < 23.5,
\* subtropical when 23.5 <= |lat| < 35, temperate when 35 <= |lat| < 50,
\* continental when 50 <= |lat| < 70 and polar when |lat| >= 70, at the
\* boundary values and above 90 degrees too.
C15_ZoneByLatitude ==
    Returned("calculate_monthly_probabilities") =>
        response.climate_zone = ZoneByLowerEnds(response.latitude)

\* C15 amended: get_climate_zone returns tropical when |lat| <= 23.5,
\* subtropical when 23.5 < |lat| <= 35, temperate when 35 < |lat| <= 50,
\* continental when 50 < |lat| <= 70, polar when 70 < |lat| <= 90, and
\* temperate, the fallback, when |lat| > 90.
C15_ZoneByInclusiveRanges ==
    Returned("calculate_monthly_probabilities") =>
        response.climate_zone = ZoneByUpperEnds(response.latitude)

\* The outlooks of 23.5 degrees south have been computed with the tropical
\* zone: a boundary value goes to the zone below it.
C15_Witness ==
    /\ Returned("calculate_monthly_probabilities")
    /\ response.latitude = -235
    /\ response.climate_zone = "tropical"

\* The season on the other side of the year.
Opposite(season) ==
    IF season = "winter" THEN "summer"
    ELSE IF season = "spring" THEN "fall"
    ELSE IF season = "summer" THEN "winter"
    ELSE "spring"

\* The calendar season from the equator northwards, its opposite south of it.
SeasonByHemisphere(latitude, month) ==
    IF latitude >= 0 THEN Season(month) ELSE Opposite(Season(month))

\* A month of a season.
MonthOf(season) ==
    IF season = "winter" THEN 1
    ELSE IF season = "spring" THEN 4
    ELSE IF season = "summer" THEN 7
    ELSE 10

\* The report of a month whose base row is that of the given season.
ReportWithSeason(month, season, climate_zone, latitude, longitude) ==
    MonthReport(month,
        CombineAdjustments(_get_base_probabilities(climate_zone, MonthOf(season)),
                           _get_latitude_adjustments(latitude, month),
                           _get_longitude_adjustments(longitude, latitude)))

\* A reported outlook lies in the ranges of a season.
DrawnInSeason(outlook, season) ==
    LET ranges == SeasonRanges(season)
        Within(x, range) == RoundOff(range[1]) <= x /\ x <= RoundOff(range[2])
    IN /\ Within(outlook.probabilities.very_hot, ranges.very_hot)
       /\ Within(outlook.probabilities.very_cold, ranges.very_cold)
       /\ Within(outlook.probabilities.very_wet, ranges.very_wet)
       /\ Within(outlook.probabilities.very_windy, ranges.very_windy)
       /\ Within(outlook.avg_temperature, ranges.avg_temp)
       /\ Within(outlook.avg_precipitation, ranges.avg_precip)

\* C16: both estimators take the base values of a month from the calendar
\* season when latitude >= 0 and from the opposite season when latitude < 0:
\* month 1 is a summer month at a negative latitude and a winter month at
\* latitude 0.
C16_SeasonByHemisphere ==
    /\ Returned("calculate_monthly_probabilities") =>
          \A k \in 1..Len(response.outlooks) :
              LET month == response.outlooks[k].month
              IN response.outlooks[k] =
                    ReportWithSeason(month,
                        SeasonByHemisphere(response.latitude, month),
                        response.climate_zone, response.latitude,
                        response.longitude)
    /\ Returned("get_long_term_forecast") =>
          \A k \in 1..Len(response.outlooks) :
              DrawnInSeason(response.outlooks[k],
                  SeasonByHemisphere(response.latitude,
                                     response.outlooks[k].month))

\* very_cold of a January report whose base row is the winter row of a zone.
JanuaryVeryCold(climate_zone, latitude, longitude) ==
    RoundOff(Max(0, Min(1000,
        _get_base_probabilities(climate_zone, 1).very_cold
        + AdjustmentOf(_get_latitude_adjustments(latitude, 1), "very_cold")
        + AdjustmentOf(_get_longitude_adjustments(longitude, latitude),
                       "very_cold"))))

\* C17 as stated: at latitude 51 in month 1 the estimator works with the
\* temperate zone and the winter row; very_cold starts from the
\* temperate-winter base and lies in [0,1].
C17_TemperateAt51 ==
    (Returned("calculate_monthly_probabilities") /\ response.latitude = 510) =>
        /\ response.climate_zone = "temperate"
        /\ \A k \in 1..Len(response.outlooks) :
              response.outlooks[k].month = 1 =>
                 /\ response.outlooks[k].probabilities.very_cold =
                       JanuaryVeryCold("temperate", 510, response.longitude)
                 /\ response.outlooks[k].probabilities.very_cold \in 0..100

\* C17 amended: at latitude 51 in month 1 the estimator works with the
\* continental zone and the winter row; very_cold starts from the
\* continental-winter base 0.6 and lies in [0,1].
C17_ContinentalAt51 ==
    (Returned("calculate_monthly_probabilities") /\ response.latitude = 510) =>
        /\ response.climate_zone = "continental"
        /\ \A k \in 1..Len(response.outlooks) :
              response.outlooks[k].month = 1 =>
                 /\ _get_base_probabilities("continental", 1).very_cold = 600
                 /\ response.outlooks[k].probabilities.very_cold =
                       JanuaryVeryCold("continental", 510, response.longitude)
                 /\ response.outlooks[k].probabilities.very_cold \in 0..100

\* Asked in January for 51 degrees north, 77 east: the first outlook is
\* January's, with very_cold 0.6 + 0.1 + 0.1.
C17_Witness ==
    /\ Returned("calculate_monthly_probabilities")
    /\ response.latitude = 510 /\ response.longitude = 77
    /\ response.current_month = 1
    /\ Len(response.outlooks) >= 1
    /\ response.outlooks[1].month = 1
    /\ response.outlooks[1].probabilities.very_cold = 80

ProbabilityNames ==
    {"very_hot", "very_cold", "very_wet", "very_windy", "uncomfortable"}

\* C18: every reported probability (very_hot, very_cold, very_wet,
\* very_windy, uncomfortable) of either estimator lies in [0,1], whatever the
\* base value and the latitude and longitude adjustments add up to.
C18_ProbabilitiesInUnitInterval ==
    (response.op \in SeasonalOps) =>
        \A k \in 1..Len(response.outlooks) :
            \A name \in ProbabilityNames :
                /\ response.outlooks[k].probabilities[name] >= 0
                /\ response.outlooks[k].probabilities[name] <= 100

\* A polar winter on a maritime longitude: the very_hot base 0.0 with two
\* adjustments of -0.1 is reported as 0.
C18_Witness ==
    /\ Returned("calculate_monthly_probabilities")
    /\ response.climate_zone = "polar"
    /\ Len(response.outlooks) >= 1
    /\ response.outlooks[1].month = 1
    /\ _get_base_probabilities("polar", 1).very_hot
         + AdjustmentOf(_get_latitude_adjustments(response.latitude, 1), "very_hot")
         + AdjustmentOf(_get_longitude_adjustments(response.longitude,
                                                   response.latitude), "very_hot")
         < 0
    /\ response.outlooks[1].probabilities.very_hot = 0

\* ----------------------------------------------------- missing fields

\* The defaults a missing field is read as.
FieldDefaults ==
    [temperature |-> 20, humidity |-> 50, wind_speed |-> 10, precipitation |-> 0,
     uv_index |-> 5, visibility |-> 10, condition |-> "sunny"]

\* The reading that carries every key: the given one with the default in
\* the place of each missing key.
Filled(wd) ==
    [f \in DOMAIN wd |->
        IF f = "absent" THEN {}
        ELSE IF f \in wd.absent THEN FieldDefaults[f]
        ELSE wd[f]]

\* C19: a keyed reading with any subset of its fields missing is never
\* rejected by _calculate_score or by the clothing get_recommendations, and
\* is evaluated exactly as the reading with temperature 20, humidity 50,
\* wind_speed 10, precipitation 0, uv_index 5, visibility 10 and condition
\* 'sunny' in the place of the missing fields.
C19_MissingFieldsDefaulted ==
    weather_data.kind = "dict" =>
        /\ \A i \in 1..Len(events) :
              /\ _calculate_score(events[i], weather_data)
                    = _calculate_score(events[i], Filled(weather_data))
              /\ events[i].weather_requirements.kind = "object"
                 /\ events[i].weather_requirements.text = {}
                    => _calculate_score(events[i], weather_data).raised = "none"
        /\ response.op = "calculate_event_score" =>
              response = calculate_event_score(Self, response.event_id,
                                               Filled(weather_data))
        /\ response.op = "get_event_recommendations" =>
              response = get_event_recommendations(Self, Filled(weather_data),
                             ForecastType(weather_data), response.categories)
        /\ response.op = "get_recommendations" =>
              /\ response.raised = "none"
              /\ response = get_recommendations(Filled(weather_data),
                                 response.outfit.forecast_type,
                                 response.outfit.location)

\* A reading with no key at all, scored for the concert as the default day:
\* 100, although the slots held a cold wet day.
C19_Witness ==
    /\ Returned("calculate_event_score")
    /\ weather_data.absent = ReadingFields
    /\ weather_data.temperature = -5
    /\ response.event_id = "concert"
    /\ response.result.score = 100
    /\ response.result.score
         # _calculate_score(events[1], Without(weather_data, {})).score

\* ------------------------------------------------ unrecognized keys

\* The entry with only the recognized keys left in its requirements.
Recognized(event) ==
    LET requirements == event.weather_requirements
    IN [event EXCEPT !.weather_requirements =
           [requirements EXCEPT
               !.num  = [key \in (DOMAIN requirements.num) \cap RecognizedKeys |->
                            requirements.num[key]],
               !.text = requirements.text \cap RecognizedKeys]]

\* The entries that carry a key no rule knows.
WithUnrecognizedKey ==
    {i \in 1..Len(events) :
        /\ events[i].weather_requirements.kind = "object"
        /\ Recognized(events[i]) # events[i]}

\* The reading of the skiing example.
SkiingDay ==
    [DefaultReading EXCEPT !.temperature = -5, !.condition = "snowy"]

\* C20: a requirement key outside the six recognized names never changes
\* what _calculate_score returns: an entry is scored as the entry without
\* such keys.  skiing, with min_precipitation 5 among its requirements, on a
\* snowy day of -5 degrees, wind 10, no precipitation, humidity 50 scores 100.
C20_UnrecognizedKeysIgnored ==
    /\ \A i \in WithUnrecognizedKey :
          _calculate_score(events[i], weather_data)
            = _calculate_score(Recognized(events[i]), weather_data)
    /\ ( /\ Returned("calculate_event_score")
         /\ response.event_id = "skiing"
         /\ weather_data = SkiingDay ) =>
          response.result.score = 100

\* skiing has been scored on the day of the example.
C20_Witness ==
    /\ Returned("calculate_event_score")
    /\ response.event_id = "skiing"
    /\ weather_data = SkiingDay
    /\ EntryOf(response.result) \in WithUnrecognizedKey
    /\ "min_precipitation" \in
          DOMAIN events[EntryOf(response.result)].weather_requirements.num
    /\ response.result.score = 100

\* ------------------------------------------------------ concurrent calls

\* What the call of a frame returns when it runs alone.
Alone(call) ==
    IF call.op = "calculate_event_score"
    THEN calculate_event_score(Self, call.event_id, call.wd)
    ELSE get_event_recommendations(Self, call.wd, ForecastType(call.wd),
                                   call.categories)

\* C11: calls of calculate_event_score and get_event_recommendations whose
\* steps interleave in any order, with no locking, each return what they
\* return when run alone: no call sees or alters the score, reasons,
\* recommendations or result list of another.
C11_CallsIndependent ==
    \A t \in Callers :
        calls[t].pc = "done" => calls[t].result = Alone(calls[t])

\* A get_event_recommendations call that ran while another call was in
\* flight has returned a list, and the other caller stands in the middle of
\* _calculate_score with a penalty in its locals.
C11_Witness ==
    \E t \in Callers, u \in Callers :
        /\ t # u
        /\ calls[t].pc = "done"
        /\ calls[t].concurrent
        /\ calls[t].op = "get_event_recommendations"
        /\ calls[t].result.raised = "none"
        /\ Len(calls[t].result.results) >= 2
        /\ calls[u].pc = "adjust"
        /\ calls[u].concurrent
        /\ calls[u].wd # calls[t].wd
        /\ calls[u].locals.score < 100

\* ------------------------------------------------------ the score formula

\* The entries _calculate_score evaluates to the end on a keyed reading.
Scorable(event) ==
    /\ event.weather_requirements.kind = "object"
    /\ event.weather_requirements.text \cap RecognizedKeys = {}

\* The penalty of one requirement: nothing when the key is not there or the
\* excess is not positive, the excess times the rate otherwise.
RequirementPenalty(event, key, excess, rate) ==
    IF key \in DOMAIN event.weather_requirements.num /\ excess > 0
    THEN excess * rate ELSE 0

Threshold(event, key) ==
    IF key \in DOMAIN event.weather_requirements.num
    THEN event.weather_requirements.num[key] ELSE 0

\* The overlay of a category under a condition, wind and temperature.
Overlay(event, wd) ==
    IF event.category = "sunny_friendly"
       /\ wd.condition \in {"rainy", "snowy", "stormy"} THEN -30
    ELSE IF event.category = "rain_compatible"
       /\ wd.condition \in {"sunny", "cloudy"} THEN 10
    ELSE IF event.category = "wind_based" /\ wd.wind_speed < 5 THEN -20
    ELSE IF event.category = "cold_weather" /\ wd.temperature > 10 THEN -25
    ELSE 0

\* 100 minus the penalties plus the overlay minus the comfort penalties,
\* before the clamp; precipitation in half millimetres, 8 per millimetre.
RawScore(event, wd) ==
    100
    - RequirementPenalty(event, "min_temp",
                         Threshold(event, "min_temp") - wd.temperature, 5)
    - RequirementPenalty(event, "max_temp",
                         wd.temperature - Threshold(event, "max_temp"), 3)
    - RequirementPenalty(event, "min_wind",
                         Threshold(event, "min_wind") - wd.wind_speed, 2)
    - RequirementPenalty(event, "max_wind",
                         wd.wind_speed - Threshold(event, "max_wind"), 4)
    - RequirementPenalty(event, "max_precipitation",
                         wd.precipitation - 2 * Threshold(event, "max_precipitation"), 4)
    - RequirementPenalty(event, "min_visibility",
                         Threshold(event, "min_visibility") - wd.visibility, 3)
    + Overlay(event, wd)
    - (IF wd.humidity > 80 THEN 10 ELSE 0)
    - (IF wd.wind_speed > 20 THEN 15 ELSE 0)

\* C21: the score _calculate_score returns is the clamp to [0,100] of 100
\* minus the penalties of the violated, present requirements (5, 3, 2, 4, 8
\* and 3 per unit; none at the threshold itself), plus the category overlay,
\* minus 10 when humidity > 80, minus 15 when wind_speed > 20.  A
\* sunny_friendly activity with max_temp 25 and max_precipitation 2 at 35
\* degrees, 10 mm, wind 5, humidity 60, sunny scores 6.
C21_ScoreFormula ==
    /\ weather_data.kind = "dict" =>
          \A i \in 1..Len(events) :
              Scorable(events[i]) =>
                 _calculate_score(events[i], weather_data).score
                   = Max(0, Min(100, RawScore(events[i], weather_data)))
    /\ ( /\ Returned("calculate_event_score")
         /\ response.event_id = "beach_day"
         /\ weather_data = HotWetDay ) =>
          response.result.score = 6

\* The activity of the example has been scored on the day of the example.
C21_Witness ==
    /\ Returned("calculate_event_score")
    /\ response.event_id = "beach_day"
    /\ weather_data = HotWetDay
    /\ response.result.score = 6
    /\ RawScore(events[EntryOf(response.result)], weather_data) = 6

\* ------------------------------------------------------ the summary reason

SummaryReasons ==
    { <<"Excellent weather conditions for this event">>,
      <<"Good weather conditions for this event">>,
      <<"Moderate weather conditions - proceed with caution">>,
      <<"Poor weather conditions for this event">> }

\* The summary of a final score by its band.
SummaryOfBand(score) ==
    IF score >= 80 THEN <<"Excellent weather conditions for this event">>
    ELSE IF 60 <= score /\ score < 80 THEN <<"Good weather conditions for this event">>
    ELSE IF 40 <= score /\ score < 60
    THEN <<"Moderate weather conditions - proceed with caution">>
    ELSE <<"Poor weather conditions for this event">>

\* A reasons list ends with the summary of the score and holds no other one.
EndsWithSummary(reasons, score) ==
    /\ Len(reasons) >= 1
    /\ reasons[Len(reasons)] = SummaryOfBand(score)
    /\ \A k \in 1..(Len(reasons) - 1) : reasons[k] \notin SummaryReasons

\* C22: every reasons list _calculate_score returns ends with exactly one
\* summary reason, that of the band of the clamped final score: excellent
\* from 80, good from 60 below 80, moderate from 40 below 60, poor below 40.
C22_OneSummaryReason ==
    /\ \A i \in 1..Len(events) :
          LET r == _calculate_score(events[i], weather_data)
          IN r.raised = "none" => EndsWithSummary(r.reasons, r.score)
    /\ Returned("calculate_event_score") =>
          EndsWithSummary(response.result.reasons, response.result.score)
    /\ Returned("get_event_recommendations") =>
          \A k \in 1..Len(response.results) :
              EndsWithSummary(response.results[k].reasons, response.results[k].score)

\* A result in the moderate band with penalty reasons before its summary.
C22_Witness ==
    /\ Returned("calculate_event_score")
    /\ response.result.score >= 40 /\ response.result.score < 60
    /\ Len(response.result.reasons) >= 3
    /\ response.result.reasons[Len(response.result.reasons)]
         = <<"Moderate weather conditions - proceed with caution">>

\* ------------------------------------------------------ one band per rule

\* The entries and the tips of the one band a value falls in, for each of
\* the four rules; precipitation in half millimetres.
TemperatureBand(temp) ==
    IF temp < 0 THEN <<4, 2>>
    ELSE IF 0 <= temp /\ temp < 10 THEN <<3, 1>>
    ELSE IF 10 <= temp /\ temp < 20 THEN <<1, 1>>
    ELSE IF 25 < temp /\ temp <= 30 THEN <<2, 1>>
    ELSE IF temp > 30 THEN <<3, 2>>
    ELSE <<0, 0>>

PrecipitationBand(precipitation) ==
    IF precipitation > 2 * 5 THEN <<3, 2>>
    ELSE IF 2 * 1 < precipitation /\ precipitation <= 2 * 5 THEN <<2, 1>>
    ELSE <<0, 0>>

WindBand(wind_speed) ==
    IF wind_speed > 20 THEN <<2, 2>>
    ELSE IF 15 < wind_speed /\ wind_speed <= 20 THEN <<1, 1>>
    ELSE <<0, 0>>

UvBand(uv_index) ==
    IF uv_index > 7 THEN <<3, 2>>
    ELSE IF 5 < uv_index /\ uv_index <= 7 THEN <<2, 1>>
    ELSE <<0, 0>>

\* The tips that do not come from the four rules: humidity and forecast type.
OtherTips(wd, forecast_type) ==
    (IF wd.humidity > 80 THEN 2 ELSE IF wd.humidity < 30 THEN 1 ELSE 0)
    + (IF forecast_type = "long_term" THEN 2 ELSE 1)

EntriesOfRule(list, rule) == Len(SelectSeq(list, LAMBDA rec : RuleOf(rec) = rule))

\* C23: in each dimension of the clothing advisor at most one band fires
\* (temperature: below 0, 0 up to 10, 10 up to 20, above 25 up to 30, above
\* 30, and none from 20 to 25; precipitation: above 5, above 1 up to 5;
\* wind: above 20, above 15 up to 20; UV: above 7, above 5 up to 7), so a
\* dimension contributes the entries and tips of a single band.
C23_OneBandPerDimension ==
    Returned("get_recommendations") =>
        LET out == response.outfit.recommendations
            wd == weather_data
        IN /\ EntriesOfRule(out, 1) = TemperatureBand(wd.temperature)[1]
           /\ EntriesOfRule(out, 2) = PrecipitationBand(wd.precipitation)[1]
           /\ EntriesOfRule(out, 3) = WindBand(wd.wind_speed)[1]
           /\ EntriesOfRule(out, 4) = UvBand(wd.uv_index)[1]
           /\ Len(response.outfit.comfort_tips)
                = TemperatureBand(wd.temperature)[2]
                  + PrecipitationBand(wd.precipitation)[2]
                  + WindBand(wd.wind_speed)[2] + UvBand(wd.uv_index)[2]
                  + OtherTips(wd, response.outfit.forecast_type)
           /\ (20 <= wd.temperature /\ wd.temperature <= 25) =>
                 EntriesOfRule(out, 1) = 0

\* A frosty day: below 0 degrees is also below 10 and below 20, and only the
\* four entries of the coldest band are there; wind 20 and UV 7 stand at the
\* upper end of their lower bands.
C23_Witness ==
    /\ Returned("get_recommendations")
    /\ weather_data.temperature = -3
    /\ weather_data.wind_speed = 20
    /\ weather_data.uv_index = 7
    /\ EntriesOfRule(response.outfit.recommendations, 1) = 4
    /\ EntriesOfRule(response.outfit.recommendations, 3) = 1
    /\ EntriesOfRule(response.outfit.recommendations, 4) = 2

\* ------------------------------------------------- ties and the cut-off

\* The places in the catalog of the entries that qualify for a filter: in
\* the filter, evaluated without failure, and scoring their minimum.
Qualifying(categories) ==
    {i \in 1..Len(events) :
        /\ InFilter(events[i], categories)
        /\ _calculate_score(events[i], weather_data).raised = "none"
        /\ _calculate_score(events[i], weather_data).score
             >= events[i].min_comfort_score}

\* C24: in the list get_event_recommendations returns, results of equal
\* score stand in catalog order; when more than 10 entries qualify the 10
\* returned are the highest-scoring ones, a tie at the cut-off going to the
\* entries earlier in the catalog.
C24_TiesInCatalogOrder ==
    Returned("get_event_recommendations") =>
        LET out == response.results
            returned == {EntryOf(out[k]) : k \in 1..Len(out)}
            qualifying == Qualifying(response.categories)
        IN /\ Len(out) = Min(10, Cardinality(qualifying))
           /\ returned \subseteq qualifying
           /\ \A k, l \in 1..Len(out) :
                 (k < l /\ out[k].score = out[l].score) =>
                    EntryOf(out[k]) < EntryOf(out[l])
           /\ \A q \in qualifying \ returned :
                 \A k \in 1..Len(out) :
                    LET score == _calculate_score(events[q], weather_data).score
                    IN \/ out[k].score > score
                       \/ out[k].score = score /\ EntryOf(out[k]) < q

\* More than ten entries qualify and ten are returned; an entry left out has
\* the score of the last one returned and stands later in the catalog.
C24_Witness ==
    /\ Returned("get_event_recommendations")
    /\ Len(response.results) = 10
    /\ Cardinality(Qualifying(response.categories)) > 10
    /\ \E q \in Qualifying(response.categories) :
          /\ \A k \in 1..10 : EntryOf(response.results[k]) # q
          /\ _calculate_score(events[q], weather_data).score
               = response.results[10].score
          /\ EntryOf(response.results[10]) < q

\* ------------------------------------------ reasons and recommendations

\* 1 when a requirement is present and violated, 0 otherwise.
Violated(event, key, excess) ==
    IF RequirementPenalty(event, key, excess, 1) > 0 THEN 1 ELSE 0

\* The rules that fire with a penalty: violated requirements, a penalising
\* overlay, and the two comfort penalties.
PenalisingRules(event, wd) ==
    Violated(event, "min_temp", Threshold(event, "min_temp") - wd.temperature)
    + Violated(event, "max_temp", wd.temperature - Threshold(event, "max_temp"))
    + Violated(event, "min_wind", Threshold(event, "min_wind") - wd.wind_speed)
    + Violated(event, "max_wind", wd.wind_speed - Threshold(event, "max_wind"))
    + Violated(event, "max_precipitation",
               wd.precipitation - 2 * Threshold(event, "max_precipitation"))
    + Violated(event, "min_visibility",
               Threshold(event, "min_visibility") - wd.visibility)
    + (IF Overlay(event, wd) < 0 THEN 1 ELSE 0)
    + (IF wd.humidity > 80 THEN 1 ELSE 0)
    + (IF wd.wind_speed > 20 THEN 1 ELSE 0)

\* The rain_compatible bonus fired.
BonusFired(event, wd) ==
    event.category = "rain_compatible" /\ wd.condition \in {"sunny", "cloudy"}

\* C25: in every result of _calculate_score the number of reasons is the
\* number of recommendations plus 1 for the summary reason, plus 1 more
\* exactly when the rain_compatible bonus fired; every other rule that fires
\* adds one reason and one recommendation.
C25_ReasonsAndRecommendations ==
    weather_data.kind = "dict" =>
        \A i \in 1..Len(events) :
            Scorable(events[i]) =>
               LET r == _calculate_score(events[i], weather_data)
               IN /\ Len(r.recommendations) = PenalisingRules(events[i], weather_data)
                  /\ Len(r.reasons) = Len(r.recommendations) + 1
                       + (IF BonusFired(events[i], weather_data) THEN 1 ELSE 0)

\* The museum on a sunny, humid day: the bonus and the humidity penalty
\* both fired, and there are three reasons for one recommendation.
C25_Witness ==
    /\ Returned("calculate_event_score")
    /\ response.event_id = "museum"
    /\ weather_data.humidity > 80
    /\ BonusFired(events[EntryOf(response.result)], weather_data)
    /\ Len(response.result.recommendations) = 1
    /\ Len(response.result.reasons) = 3

\* ------------------------------------------------ the reported averages

\* C26: the avg_temperature and avg_precipitation that
\* _calculate_month_probabilities reports for a zone and month are the
\* avg_temp and avg_precip of the base row of that zone and season (25 and
\* 60 for a tropical winter, -10 and 30 for a continental winter): neither
\* the adjustments nor the [0,1] clamp of the probabilities alter them.
C26_AveragesFromBaseRow ==
    Returned("calculate_monthly_probabilities") =>
        \A k \in 1..Len(response.outlooks) :
            LET outlook == response.outlooks[k]
                base == _get_base_probabilities(response.climate_zone, outlook.month)
            IN /\ outlook.avg_temperature = RoundOff(base.avg_temp)
               /\ outlook.avg_precipitation = RoundOff(base.avg_precip)

\* ------------------------------------------------------------- start-up

\* init_db has created the events table and inserted the sample rows.
Populated(db) ==
    /\ "events" \in db.tables
    /\ \A i \in 1..Len(sample_events) :
           \E j \in 1..Len(db.rows) : db.rows[j] = sample_events[i]

\* C27: in every start-up sequence the catalog is read from the events table
\* (get_events, called by EventScoringService.__init__) only once init_db
\* has created and populated that table, so that on a fresh database the
\* load never runs against a missing events table: the step that loads the
\* catalog is taken only from a state whose events table exists and holds
\* the sample rows.
C27_CatalogReadAfterInitDb == [][ImportRoutes => Populated(database)]_vars

\* ------------------------------------------- WeatherData objects as readings

\* The reading with the same values, handed over as a dict.
Keyed(wd) == [wd EXCEPT !.kind = "dict"]

\* C28: the reading of the short-term path, a WeatherData object, can be
\* read by keyed lookups: with it calculate_event_score returns a result for
\* an activity of the catalog rather than an error, and
\* get_event_recommendations returns every activity that meets its
\* min_comfort_score, as it does for the keyed reading with the same values,
\* rather than an empty list.
C28_WeatherDataObjectsAccepted ==
    weather_data.kind = "model" =>
        /\ (response.op = "calculate_event_score" /\ (\E i \in 1..Len(events) : events[i].id = response.event_id))
               => response.raised = "none"
        /\ response.op = "get_event_recommendations"
               => response.results =
                      get_event_recommendations(Self, Keyed(weather_data), "short_term",
                                                response.categories).results

\* ------------------------------------------- the long-term recommendations

\* The default entries that tolerate 2, 5 and 5 mm of precipitation.
FairWeatherEntries ==
    { sample_events[i] : i \in {j \in 1..Len(sample_events) :
                                  sample_events[j].id \in {"concert", "kite_festival", "hiking"}} }

ReturnedIds == {response.results[i].event_id : i \in 1..Len(response.results)}

\* C29: on the long-term path the reading is built from the first monthly
\* outlook with humidity 60, wind speed 10, condition sunny and the outlook's
\* average precipitation, which is at least 20 mm; the default entries
\* concert, kite_festival and hiking score 0 on it and are never among the
\* recommendations, whatever the month and the latitude.
C29_FairWeatherEntriesNeverReturned ==
    Returned("get_event_recommendations") =>
        /\ weather_data.kind = "dict"
        /\ weather_data.humidity = 60
        /\ weather_data.wind_speed = 10
        /\ weather_data.condition = "sunny"
        /\ "precipitation" \notin weather_data.absent
        /\ weather_data.precipitation >= 2 * 20
        /\ \A i \in 1..Len(events) :
               events[i] \in FairWeatherEntries =>
                   /\ _calculate_score(events[i], weather_data).raised = "none"
                   /\ _calculate_score(events[i], weather_data).score = 0
                   /\ events[i].id \notin ReturnedIds

\* The driest outlook, 20 mm: the museum tour is recommended, and the three
\* fair-weather entries of the catalog are not.
C29_Witness ==
    /\ Returned("get_event_recommendations")
    /\ response.categories = NoCategories
    /\ events = sample_events
    /\ weather_data.precipitation = 2 * 20
    /\ "museum" \in ReturnedIds
    /\ ReturnedIds \cap {"concert", "kite_festival", "hiking"} = {}

\* ------------------------------------------------- the months of a forecast

NextMonth(month) == IF month = 12 THEN 1 ELSE month + 1

\* The month reached from month by going i months on.
RECURSIVE MonthsOn(_, _)
MonthsOn(month, i) == IF i = 0 THEN month ELSE NextMonth(MonthsOn(month, i - 1))

NameOfMonth ==
    (1 :> "January") @@ (2 :> "February") @@ (3 :> "March") @@ (4 :> "April")
    @@ (5 :> "May") @@ (6 :> "June") @@ (7 :> "July") @@ (8 :> "August")
    @@ (9 :> "September") @@ (10 :> "October") @@ (11 :> "November")
    @@ (12 :> "December")

\* C30: for every current month m and every months_ahead n >= 0,
\* calculate_monthly_probabilities (and get_long_term_forecast, whose n is 6)
\* returns exactly n outlooks, for the months m, m+1, ... taken cyclically
\* (December is followed by January), each month in 1..12 and each
\* month_name the name of that month.
C30_MonthsCycle ==
    (response.op \in SeasonalOps) =>
        /\ Len(response.outlooks) = response.months_ahead
        /\ response.op = "get_long_term_forecast" => response.months_ahead = 6
        /\ \A k \in 1..Len(response.outlooks) :
               /\ response.outlooks[k].month \in 1..12
               /\ response.outlooks[k].month = MonthsOn(response.current_month, k - 1)
               /\ response.outlooks[k].month_name = NameOfMonth[response.outlooks[k].month]

\* Thirteen months asked for in November: the list runs through December
\* into January and ends with the next November.
C30_Witness ==
    /\ response.op = "calculate_monthly_probabilities"
    /\ response.current_month = 11
    /\ response.months_ahead = 13
    /\ response.outlooks[2].month_name = "December"
    /\ response.outlooks[3].month = 1
    /\ response.outlooks[13].month_name = "November"

====
